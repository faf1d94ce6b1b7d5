--------------------------------- MODULE Relay --------------------------------
(***************************************************************************)
(* inspect.go and json.go: how the body of an inspect becomes the reply.   *)
(* Requests share the buffers of one sync.Pool; a request has a buffer     *)
(* while decodeJSON reads Docker's body into it, gives it back, and has    *)
(* one again while its own reply is encoded and written.  Exchanges that   *)
(* fail before there is a body are in Handler.                             *)
(*                                                                         *)
(* A byte is the request it was read or written for.  What a body says is  *)
(* abstracted to the length at which its first JSON value is complete and  *)
(* what follows that value, whether the field the proxy insists on is      *)
(* there, and the labels.  Encoding cannot fail for the types it is used   *)
(* with, so the branch of writeJSON for that case is left out.             *)
(***************************************************************************)
EXTENDS Allowlist, FiniteSets

CONSTANTS Requests,         \* inspects clients send
          Asks,             \* what they may ask
          Bodies,           \* what Docker may answer, among AllBodies
          Buffers,          \* buffers that exist at once
          None,             \* no buffer
          NoLabels,         \* a nil map of labels
          maxBytes,         \* cfg.MaxResponseBytes
          maxPooledBuffer,  \* the largest buffer the pool takes back
          MinRead,          \* room bytes.Buffer makes before each read
          LabelPrefixes,    \* cfg.LabelPrefixes
          Labelled          \* the label keys each prefix matches

Keys == UNION {Labelled[p] : p \in DOMAIN Labelled}

\* A body: its length and how it ends, the length declared (-1 for none), where
\* its first value is complete (0 for never), whether only white space follows,
\* whether that value has its Config or Id, and its labels.
AllBodies ==
    {b \in [len : Nat, ends : {"eof", "break"}, hint : Int, value : Nat,
            clean : BOOLEAN, named : BOOLEAN, labels : {NoLabels} \union SUBSET Keys] :
        /\ b.value <= b.len
        /\ b.value = 0 => ~b.clean /\ ~b.named
        \* net/http reads as much as was declared, and fewer bytes are an error
        /\ b.hint = -1 \/ IF b.ends = "eof" THEN b.hint = b.len ELSE b.len < b.hint}

ASSUME RelayAssumption ==
    /\ Asks \subseteq Inputs
    /\ Bodies \subseteq AllBodies
    /\ IsFiniteSet(Buffers) /\ None \notin Buffers
    /\ maxBytes \in Nat \ {0} /\ maxPooledBuffer \in Nat /\ MinRead \in Nat \ {0}
    /\ LabelPrefixes \subseteq DOMAIN Labelled

VARIABLES pc,       \* where each request stands
          ask,      \* what it asks
          body,     \* what Docker answers it
          buf,      \* the buffer it has
          pool,     \* buffers in the pool
          content,  \* the bytes of each buffer
          cap,      \* and its capacity
          result,   \* what decodeJSON returned
          sent,     \* the bytes of the reply that are on the wire
          relayed   \* the labels in the reply

store == <<buf, pool, content, cap>>
told  == <<sent, relayed>>
vars  == <<pc, ask, body, store, result, told>>

Results == {"none", "unreadable", "tooLarge", "invalid", "ok"}

Init ==
    /\ pc = [r \in Requests |-> "new"]
    /\ ask \in [Requests -> Asks]
    /\ body \in [Requests -> Bodies]
    /\ buf = [r \in Requests |-> None]
    /\ pool = {}
    /\ content = [b \in Buffers |-> <<>>]
    /\ cap = [b \in Buffers |-> 0]
    /\ result = [r \in Requests |-> "none"]
    /\ sent = [r \in Requests |-> <<>>]
    /\ relayed = [r \in Requests |-> NoLabels]

-----------------------------------------------------------------------------
Goto(r, from, to) == pc[r] = from /\ pc' = [pc EXCEPT ![r] = to]

\* Buffers that are not there yet, or that the collector took from the pool.
Fresh == Buffers \ (pool \union {buf[r] : r \in Requests})

\* Any pooled buffer, or a new one.
Get(r, b) ==
    /\ b \in pool \union Fresh
    /\ buf' = [buf EXCEPT ![r] = b]
    /\ pool' = pool \ {b}

\* A pooled buffer handed out as it came back.
StartDirty(b) == IF b \in pool THEN content[b] ELSE <<>>

\* What is in a buffer getBuffer returns: Reset empties a pooled one.
Start(b) == <<>>

\* The room such a buffer has.
Room(b) == IF b \in pool THEN cap[b] ELSE 0

\* bytes.Buffer at least doubles when it has to grow.
Grown(old, need) == IF need <= old THEN old ELSE IF need < 2 * old THEN 2 * old ELSE need

\* putBuffer, deferred.
putBuffer(r) ==
    /\ buf' = [buf EXCEPT ![r] = None]
    /\ pool' = pool \union (IF cap[buf[r]] <= maxPooledBuffer THEN {buf[r]} ELSE {})
    /\ UNCHANGED <<content, cap>>

\* The pool is emptied by the collector from time to time.
Collect ==
    /\ pool # {}
    /\ pool' \in {p \in SUBSET pool : p # pool}
    /\ UNCHANGED <<pc, ask, body, buf, content, cap, result, told>>

-----------------------------------------------------------------------------
(* handleContainerInspect and handleImageInspect.                          *)

\* Refused with an encoded constant.
Deny(r) ==
    /\ Classify(ask[r]) = "none"
    /\ Goto(r, "new", "done")
    /\ UNCHANGED <<ask, body, store, result, told>>

\* The declared length taken at its word.
HintTrusted(r) == body[r].hint > 0

\* What decodeJSON sizes the buffer by.
HintUsed(r) == body[r].hint > 0 /\ body[r].hint <= maxBytes

\* decodeJSON starts on a 200: the buffer and its Grow.
Open(r) ==
    /\ Classify(ask[r]) \in {"container", "image"}
    /\ Goto(r, "new", "read")
    /\ \E b \in Buffers :
          /\ Get(r, b)
          /\ content' = [content EXCEPT ![b] = Start(b)]
          /\ cap' = [cap EXCEPT ![b] = IF HintUsed(r) THEN Grown(Room(b), body[r].hint)
                                       ELSE Room(b)]
    /\ UNCHANGED <<ask, body, result, told>>

Got(r) == Len(content[buf[r]])

\* Without the byte that tells a body at the limit from one over it.
ReadableTruncated == maxBytes

\* What the LimitReader lets through.
Readable == maxBytes + 1

MakeRoom(r) == cap' = [cap EXCEPT ![buf[r]] = Grown(cap[buf[r]], Got(r) + MinRead)]

\* One Read of ReadFrom.
Read(r) ==
    /\ Goto(r, "read", "read")
    /\ \E n \in 1..body[r].len :
          /\ Got(r) + n <= Readable /\ Got(r) + n <= body[r].len
          /\ content' = [content EXCEPT ![buf[r]] = @ \o [i \in 1..n |-> r]]
    /\ MakeRoom(r)
    /\ UNCHANGED <<ask, body, buf, pool, result, told>>

\* The body breaks off; at the limit the reader may end before it shows.
Break(r) ==
    /\ Goto(r, "read", "close")
    /\ body[r].ends = "break" /\ Got(r) >= body[r].len
    /\ result' = [result EXCEPT ![r] = "unreadable"]
    /\ MakeRoom(r)
    /\ UNCHANGED <<ask, body, buf, pool, content, told>>

\* What json.Unmarshal says of the first n bytes of a body.
Unmarshals(b, n) == b.value \in 1..n /\ (n = b.value \/ b.clean)

\* The reader reports the end, and the bytes are decoded.
Decode(r) ==
    /\ Goto(r, "read", "close")
    /\ \/ Got(r) >= Readable
       \/ body[r].ends = "eof" /\ Got(r) >= body[r].len
    /\ result' = [result EXCEPT ![r] =
                    IF Got(r) > maxBytes THEN "tooLarge"
                    ELSE IF Unmarshals(body[r], Got(r)) THEN "ok" ELSE "invalid"]
    /\ MakeRoom(r)
    /\ UNCHANGED <<ask, body, buf, pool, content, told>>

Close(r) ==
    /\ Goto(r, "close", "judge")
    /\ putBuffer(r)
    /\ UNCHANGED <<ask, body, result, told>>

\* writeUpstreamInvalid, and an object without its Config or Id: a fixed body.
Refuse(r) ==
    /\ result[r] # "ok" \/ ~body[r].named
    /\ Goto(r, "judge", "done")
    /\ UNCHANGED <<ask, body, store, result, told>>

\* The keys that start with one of the prefixes; a nil map stays nil.
filterLabels(labels) ==
    IF LabelPrefixes = {} \/ labels = NoLabels THEN labels
    ELSE {key \in labels : \E p \in LabelPrefixes : key \in Labelled[p]}

\* writeJSON: a buffer with the encoded reply.
Encode(r) ==
    /\ result[r] = "ok" /\ body[r].named
    /\ Goto(r, "judge", "write")
    /\ \E b \in Buffers :
          /\ Get(r, b)
          /\ content' = [content EXCEPT ![b] = Append(Start(b), r)]
          /\ cap' = [cap EXCEPT ![b] = Grown(Room(b), Len(Start(b)) + 1)]
    /\ relayed' = [relayed EXCEPT ![r] = filterLabels(body[r].labels)]
    /\ UNCHANGED <<ask, body, result, sent>>

\* writeBody.
Write(r) ==
    /\ Goto(r, "write", "return")
    /\ sent' = [sent EXCEPT ![r] = content[buf[r]]]
    /\ UNCHANGED <<ask, body, store, result, relayed>>

Return(r) ==
    /\ Goto(r, "return", "done")
    /\ putBuffer(r)
    /\ UNCHANGED <<ask, body, result, told>>

\* Every request has been served: the model stops, not the program.
Finished == (\A r \in Requests : pc[r] = "done") /\ UNCHANGED vars

Next ==
    \/ \E r \in Requests :
          \/ Deny(r) \/ Open(r) \/ Read(r) \/ Break(r) \/ Decode(r) \/ Close(r)
          \/ Refuse(r) \/ Encode(r) \/ Write(r) \/ Return(r)
    \/ Collect
    \/ Finished

Spec == Init /\ [][Next]_vars

-----------------------------------------------------------------------------
Inspects == {q \in Asks : Routes(q) \intersect {"container", "image"} # {}}
Denied(r) == pc[r] = "done" /\ result[r] = "none"

\* Every request is routed as the table of the README says: no endpoint slips
\* through between a prefix and a suffix that overlap, and no spelling of a path
\* stands for another; and of the requests in progress Docker is asked those
\* inspects that the table names and no other (allowlist.go:102-106).
ClassifyMeetsTable ==
    /\ Misrouted = {}
    /\ \A r \in Requests : pc[r] # "new" => (Denied(r) <=> ask[r] \notin Inspects)

\* The verdict on a body is the verdict on all of it: what is over the limit is
\* never taken for the shorter document it starts with, what broke off is never
\* taken for a document or for a bad one, and no body within the limit is
\* refused for its length, whatever length was declared (json.go:53-61).
VerdictOfWholeBody ==
    \A r \in Requests :
        LET b == body[r] IN
        CASE result[r] = "none"       -> TRUE
          [] result[r] = "unreadable" -> b.ends = "break" /\ b.len <= maxBytes + 1
          [] result[r] = "tooLarge"   -> b.len > maxBytes
          [] result[r] = "ok"         -> /\ b.ends = "eof" /\ b.len <= maxBytes
                                         /\ Unmarshals(b, b.len)
          [] result[r] = "invalid"    -> /\ b.ends = "eof" /\ b.len <= maxBytes
                                         /\ ~Unmarshals(b, b.len)

\* Whoever else uses the pool, what a client gets is made of its own exchange:
\* its own bytes, nothing an earlier user left in the buffer and nothing a later
\* one put there, and of its own labels those that were asked for; a client
\* whose body was not accepted gets none of it (json.go:22-42, inspect.go:48-71).
RepliesAreOwn ==
    \A r \in Requests :
        /\ sent[r] \in {<<>>, <<r>>}
        /\ sent[r] # <<>> =>
              /\ result[r] = "ok"
              /\ relayed[r] = filterLabels(body[r].labels)
        /\ pc[r] = "read" => \A i \in DOMAIN content[buf[r]] : content[buf[r]][i] = r

\* A declared length costs no more memory than a body at the limit would, and
\* what the pool keeps is small (json.go:18-20, 57-61).
MemoryBounded ==
    \A b \in Buffers :
        /\ cap[b] <= 2 * (maxBytes + 1 + MinRead)
        /\ b \in pool => cap[b] <= maxPooledBuffer
=============================================================================

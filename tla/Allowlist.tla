------------------------------- MODULE Allowlist ------------------------------
(***************************************************************************)
(* allowlist.go and validate.go: which requests may be forwarded, and the  *)
(* table of the README they are checked against.                           *)
(*                                                                         *)
(* A target is a sequence of symbols.  A symbol is one byte of the classes *)
(* the code tells apart, or a whole word of a path; a word counts as one   *)
(* byte of a length, and the length limits are parameters.  net/http's     *)
(* parser is external: it unescapes the target into r.URL.Path and keeps   *)
(* r.URL.RawPath when the escapes are not those it would write itself.     *)
(***************************************************************************)
EXTENDS Integers, SequencesExt

CONSTANTS Inputs,                   \* requests Classify is tried on
          containerIDLength,        \* 64
          maxImageReferenceBytes,   \* 1024
          minAPIVersionLength,      \* 3
          maxAPIVersionLength       \* 16

\* A digit, a letter up to f, a letter past it, and the words of the paths.
Digits == {"1"}
Hex    == Digits \union {"a"}
Words  == {"v", "json", "containers", "images", "_ping"}

\* Bytes of an image reference besides the separator.
RefBytes == Hex \union Words \union {"z", "."}

\* "\\" stands for the bytes no target may have, "%2e" and "%2f" for escapes
\* nobody needs, "%25" and "%5c" for those a client must write.
Escapes == [e \in {"%2e", "%2f", "%25", "%5c"} |->
              CASE e = "%2e" -> "." [] e = "%2f" -> "/" [] e = "%25" -> "%" [] e = "%5c" -> "\\"]

\* All that a target is made of.
Symbols == RefBytes \union {"/", "%", "\\"} \union DOMAIN Escapes

ASSUME AllowlistAssumption ==
    /\ Inputs \subseteq [method : STRING, form : STRING, target : Seq(Symbols),
                         query : STRING, body : BOOLEAN]
    /\ containerIDLength \in Nat \ {0}
    /\ maxImageReferenceBytes \in Nat
    /\ minAPIVersionLength \in Nat /\ maxAPIVersionLength \in Nat

Unescaped(s) == IF s \in DOMAIN Escapes THEN Escapes[s] ELSE s
Escaped(s)   == CASE s = "%" -> "%25" [] s = "\\" -> "%5c" [] OTHER -> s

\* r.URL.Path, and whether r.URL.RawPath is set.
URLPath(target) == [i \in DOMAIN target |-> Unescaped(target[i])]
HasRawPath(target) == \E i \in DOMAIN target : Escaped(Unescaped(target[i])) # target[i]

-----------------------------------------------------------------------------
pingPath        == <<"/", "_ping">>
containerPrefix == <<"/", "containers", "/">>
imagePrefix     == <<"/", "images", "/">>
inspectSuffix   == <<"/", "json">>

\* The string between prefix and suffix, as a set with at most one member.
\* The suffix matched against the whole string, so that it can overlap.
trimAroundWhole(s, prefix, suffix) ==
    IF IsPrefix(prefix, s) /\ IsSuffix(suffix, s)
    THEN {SubSeq(s, Len(prefix) + 1,
                 IF Len(s) - Len(suffix) < Len(prefix) THEN Len(s) ELSE Len(s) - Len(suffix))}
    ELSE {}

trimAround(s, prefix, suffix) ==
    LET rest == SubSeq(s, Len(prefix) + 1, Len(s)) IN
    IF IsPrefix(prefix, s) /\ IsSuffix(suffix, rest)
    THEN {SubSeq(rest, 1, Len(rest) - Len(suffix))}
    ELSE {}

\* One dot with digits on both sides.
validAPIVersion(version) ==
    /\ Len(version) \in minAPIVersionLength..maxAPIVersionLength
    /\ \E dot \in 2..Len(version) - 1 :
          /\ version[dot] = "."
          /\ \A i \in DOMAIN version \ {dot} : version[i] \in Digits

\* What follows the version segment, as a set with at most one member.
trimAPIVersion(path) ==
    LET ends == {i \in 3..Len(path) : path[i] = "/"}
        end  == CHOOSE i \in ends : \A j \in ends : i <= j IN
    IF IsPrefix(<<"/", "v">>, path) /\ ends # {} /\ validAPIVersion(SubSeq(path, 3, end - 1))
    THEN {SubSeq(path, end, Len(path))}
    ELSE {}

validContainerID(id) ==
    /\ Len(id) = containerIDLength
    /\ \A i \in DOMAIN id : id[i] \in Hex

\* What stands between two neighbouring separators, the ends being two of them.
Segments(ref) ==
    LET bounds == {0, Len(ref) + 1} \union {i \in DOMAIN ref : ref[i] = "/"} IN
    {SubSeq(ref, s[1] + 1, s[2] - 1) : s \in
        {b \in bounds \X bounds : b[1] < b[2] /\ \A k \in bounds : k <= b[1] \/ b[2] <= k}}

validImageReference(ref) ==
    /\ Len(ref) \in 1..maxImageReferenceBytes
    /\ \A i \in DOMAIN ref : ref[i] \in RefBytes \union {"/"}
    /\ Segments(ref) \intersect {<<>>, <<".">>, <<".", ".">>} = {}

\* A target without an escape, a query, a doubled separator, a byte no path
\* has, and a request without a body.
Plain(q) ==
    /\ ~q.body
    /\ q.query = "none" /\ ~HasRawPath(q.target)
    /\ q.form = "origin" /\ URLPath(q.target) = q.target
    /\ q.target # <<>> /\ q.target[1] = "/"
    /\ \A i \in DOMAIN q.target : q.target[i] \notin {"%", "\\"}
    /\ \A i \in 2..Len(q.target) : <<q.target[i - 1], q.target[i]>> # <<"/", "/">>

\* The route of a request, "none" where Classify reports false.
Classify(q) ==
    LET rest == trimAPIVersion(q.target)
        Parts(prefix) == UNION {trimAround(s, prefix, inspectSuffix) : s \in rest} IN
    CASE ~Plain(q) -> "none"
      [] Plain(q) /\ q.target = pingPath ->
            IF q.method \in {"HEAD", "GET"} THEN "ping" ELSE "none"
      [] Plain(q) /\ q.target # pingPath ->
            CASE q.method # "GET" -> "none"
              [] q.method = "GET" /\ \E id \in Parts(containerPrefix) : validContainerID(id) ->
                    "container"
              [] q.method = "GET" /\ \E ref \in Parts(imagePrefix) : validImageReference(ref) ->
                    "image"
              [] OTHER -> "none"

-----------------------------------------------------------------------------
(* The table of README.md:9-13, said by building the targets it names.     *)

Strings(chars, lengths) == UNION {[1..n -> chars] : n \in lengths}

Versions == {v \in {major \o <<".">> \o minor :
                      major, minor \in Strings(Digits, 1..maxAPIVersionLength - 2)} :
               Len(v) \in minAPIVersionLength..maxAPIVersionLength}

\* Segments joined by single separators, up to a length.
References ==
    LET Names(n) == [1..n -> RefBytes] \ {<<".">>, <<".", ".">>}
        upTo[n \in Nat] ==
            (UNION {Names(k) : k \in 1..n})
              \union (UNION {{s \o <<"/">> \o t : s \in Names(k), t \in upTo[n - k - 1]} :
                              k \in 1..n - 2})
    IN upTo[maxImageReferenceBytes]

Framed(prefix, names) ==
    {<<"/", "v">> \o v \o prefix \o n \o inspectSuffix : v \in Versions, n \in names}

Table == [ping      |-> {pingPath},
          container |-> Framed(containerPrefix, [1..containerIDLength -> Hex]),
          image     |-> Framed(imagePrefix, References)]

Documented(q, route) ==
    /\ q.form = "origin" /\ q.query = "none" /\ ~q.body
    /\ q.method \in IF route = "ping" THEN {"HEAD", "GET"} ELSE {"GET"}
    /\ q.target \in Table[route]

Routes(q) == {route \in DOMAIN Table : Documented(q, route)}

\* Requests that are not classified as the table says.
Misrouted ==
    {q \in Inputs : Classify(q) \notin IF Routes(q) = {} THEN {"none"} ELSE Routes(q)}
=============================================================================

------------------------------- MODULE MCStartUp ------------------------------
(* Every arrangement of a directory, a link and two places for sockets, with   *)
(* paths that reach them directly, through the link and through "..", and one  *)
(* plain arrangement with command lines that are wrong in one way each.        *)
EXTENDS StartUp

CONSTANTS d1, d2

Path(names) == [abs |-> TRUE, names |-> names, doubled |-> FALSE]
To(names)   == [abs |-> FALSE, names |-> names, doubled |-> FALSE]

A  == <<"a">>
AB == <<"a", "b">>
AS == <<"a", "s">>
L  == <<"l">>
S  == <<"s">>

\* Beside each of the listen paths.
Locks == {<<"a", "s.lock">>, <<"s.lock">>, <<"l", "s.lock">>, <<"l.lock">>, <<"a", "b", "s.lock">>}

Layout(a, ab, as, l, s) ==
    [at \in {A, AB, AS, L, S, <<"a", "b", "s">>, <<"l", "s">>} \union Locks |->
        CASE at = A  -> a
          [] at = AB -> ab
          [] at = AS -> as
          [] at = L  -> l
          [] at = S  -> s
          [] OTHER   -> Nothing]

Links == {Nothing, Link(Path(AB)), Link(To(A)), Link(To(L))}
AtS   == {Nothing, Socket(d1), Link(To(AS))}
AtAS  == {Nothing, Socket(d1), Socket(Stale), File}

Layouts ==
    {Layout(a, Nothing, Nothing, l, s) : a \in {Nothing, File}, l \in Links, s \in AtS}
      \union {Layout(Dir("0750"), ab, as, l, s) :
                ab \in {Nothing, Dir("0750")}, as \in AtAS, l \in Links, s \in AtS}

ListenPaths == {AS, S, L \o S, L}
DockerPaths ==
    {S, AS, L \o <<"..">> \o S, L, AB \o <<"..">> \o S, <<".">> \o L \o S, <<"a", "s.lock">>}

-----------------------------------------------------------------------------
Line(listen, docker) ==
    [flags |-> "ok", args |-> 0, mode |-> "0600", level |-> "info", shutdown |-> 0,
     healthcheck |-> FALSE, uids |-> <<"">>, gids |-> <<"">>, labels |-> <<"">>,
     listen |-> listen, docker |-> docker, bytes |-> 1, conc |-> 2, timeout |-> 2, rate |-> 1]

Plain == Line(Path(AS), Path(S))

One == <<"1">>
TooMany == <<"1", "1", "1">>

\* One thing at a time, at and past the ends of its range, and two pairs.
CommandLines ==
    {Plain}
      \union {[Plain EXCEPT !.flags = f] : f \in {"help", "error"}}
      \union {[Plain EXCEPT !.args = 1], [Plain EXCEPT !.healthcheck = TRUE],
              [Plain EXCEPT !.healthcheck = TRUE, !.listen = Path(S), !.docker = Path(AS)]}
      \union {[Plain EXCEPT !.mode = m] : m \in {"0660", "0640"}}
      \union {[Plain EXCEPT !.level = l] : l \in {"debug", "trace"}}
      \union {[Plain EXCEPT !.shutdown = t] : t \in 1..5}
      \union {[Plain EXCEPT !.uids = u] : u \in {One, TooMany, <<"1", "">>, <<"x">>}}
      \union {[Plain EXCEPT !.gids = g] : g \in {<<"1", "1">>, <<"", "">>}}
      \union {[Plain EXCEPT !.labels = l] : l \in {<<"x">>, TooMany, <<"x", "">>}}
      \union {[Plain EXCEPT !.bytes = b, !.conc = c] : b \in 0..3, c \in 0..3}
      \union {[Plain EXCEPT !.timeout = t] : t \in 0..4}
      \union {[Plain EXCEPT !.rate = r] : r \in -1..2}
      \union {[Plain EXCEPT !.listen = p] :
                p \in {To(AS), Path(S), [Path(AS) EXCEPT !.doubled = TRUE], Path(AB \o <<"..">> \o S)}}

\* The same for a caller of Run, who gives lists, not the words they come from.
Listed(line) ==
    [line EXCEPT !.uids = IF @ = <<"">> THEN <<>> ELSE @, !.gids = IF @ = <<"">> THEN <<>> ELSE @,
                 !.labels = IF @ = <<"">> THEN <<>> ELSE @]

Hosts == [canIdentify : BOOLEAN, memory : {8, MaxInt64}]
Linux == [canIdentify |-> TRUE, memory |-> MaxInt64]

Asked(lines, layouts, hosts) ==
    {[host |-> h, via |-> "Main", opts |-> o, fs |-> f] : h \in hosts, o \in lines, f \in layouts}
      \union {[host |-> h, via |-> "Run", opts |-> Listed(o), fs |-> f] :
                h \in hosts, o \in lines, f \in layouts}

Ready == Layout(Dir("0750"), Nothing, Nothing, Nothing, Socket(d1))

\* What may be where the lock file is to be.
AtLock == {File, Dir("0700"), Link(Path(S)), Socket(d2)}

SomeScenarios ==
    Asked(CommandLines, {Layout(Dir(m), Nothing, Nothing, Nothing, Socket(d1)) : m \in DirModes}, Hosts)
      \union {[host |-> Linux, via |-> "Main", opts |-> Line(Path(l), Path(d)), fs |-> f] :
                l \in ListenPaths, d \in DockerPaths, f \in Layouts}
      \union Asked({Plain}, {[Ready EXCEPT ![<<"a", "s.lock">>] = n] : n \in AtLock}, {Linux})

SomeArrivals == {[at |-> A, mode |-> "0750"], [at |-> AB, mode |-> "shared"]}
TwoSockets == {d1, d2}
LowestInt64 == -25
=============================================================================

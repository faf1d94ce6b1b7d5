-------------------------------- MODULE MCRelay -------------------------------
(* Two inspects and their bodies around a limit of two bytes, and the         *)
(* requests Classify is tried on.                                             *)
EXTENDS Relay

CONSTANTS r1, r2, b1, b2, b3

TwoRequests  == {r1, r2}
ThreeBuffers == {b1, b2, b3}

Symmetry == Permutations(TwoRequests) \union Permutations(ThreeBuffers)

-----------------------------------------------------------------------------
UpTo(chars, n) == Strings(chars, 0..n)

Join(S, T) == {s \o t : s \in S, t \in T}

\* Versions of every shape, right, wrong and missing.
SomeVersions == Join({<<"/", "v">>}, UpTo({"1", "a", "."}, 4)) \union {<<>>, <<"/">>, <<"v">>}

Starts == {containerPrefix, imagePrefix, <<"/", "images">>, <<"/">>}
Endings == {inspectSuffix, <<>>, <<"json">>, <<"/", "json", "/">>}
Names    == UpTo({"1", "a", "z", ".", "/"}, 4)

GoodVersion == <<"/", "v", "1", ".", "1">>

\* Every name in a good frame, every frame around a few names, and good targets
\* with one symbol respelt.
Frames == Join(Join(SomeVersions, Starts),
               Join({<<>>, <<"1", "1">>, <<"z">>, <<"json">>}, Endings))

GoodTargets ==
    {pingPath, GoodVersion \o containerPrefix \o <<"1", "a">> \o inspectSuffix,
     GoodVersion \o imagePrefix \o <<"z", "/", "a">> \o inspectSuffix}

Respelt == UNION {{[t EXCEPT ![i] = s] : i \in DOMAIN t, s \in DOMAIN Escapes \union {"%", "\\"}} :
                    t \in GoodTargets}

Targets ==
    Frames \union Respelt \union {pingPath, <<>>, <<"_ping">>, GoodVersion \o pingPath}
      \union Join(Join({GoodVersion}, Starts), Join(Names, Endings))

Plainly(t) == [method |-> "GET", form |-> "origin", target |-> t, query |-> "none", body |-> FALSE]

SomeInputs ==
    {Plainly(t) : t \in Targets}
      \union [method : {"GET", "HEAD", "POST"}, form : {"origin", "absolute"}, target : GoodTargets,
              query : {"none", "empty", "some"}, body : BOOLEAN]

SomeAsks == {Plainly(t) : t \in GoodTargets \ {pingPath}} \union {Plainly(imagePrefix \o <<"json">>)}

-----------------------------------------------------------------------------
LabelledBy == [p |-> {"k", "kl"}, q |-> {"m"}]
OnlyP  == {"p"}

Body(len, ends, hint, value, clean, named, labels) ==
    [len |-> len, ends |-> ends, hint |-> hint, value |-> value, clean |-> clean,
     named |-> named, labels |-> labels]

\* Empty, at the limit and past it, whole, cut, with a second value, without its
\* Config, and with lengths that are true, missing, or far too large.
SomeBodies ==
    {Body(0, "eof", 0, 0, FALSE, FALSE, NoLabels),
     Body(1, "eof", 1, 1, TRUE, TRUE, NoLabels),
     Body(1, "eof", -1, 1, TRUE, FALSE, NoLabels),
     Body(2, "eof", 2, 2, TRUE, TRUE, {"k", "m"}),
     Body(2, "eof", -1, 1, TRUE, TRUE, {"m"}),
     Body(2, "eof", 2, 1, FALSE, TRUE, {}),
     Body(3, "eof", 3, 2, FALSE, TRUE, {"k"}),
     Body(3, "eof", -1, 3, TRUE, TRUE, {"k"}),
     Body(4, "eof", -1, 2, TRUE, TRUE, {}),
     Body(2, "break", -1, 2, TRUE, TRUE, {}),
     Body(1, "break", 20, 1, TRUE, TRUE, {}),
     Body(3, "break", 20, 2, FALSE, TRUE, {})}
=============================================================================

------------------------------- MODULE MCDeploy -------------------------------
(* Two task environments and an app; the calls of deploy that are tried.   *)
EXTENDS Deploy, TLC

CONSTANTS a, b, app, i1, i2

Call(args, deps, name, image, skip, version, copy) ==
  [args |-> args, deps |-> deps, name |-> name, image |-> image, skip |-> skip,
   version |-> version, copy |-> copy]

Names    == a :> "a" @@ b :> "b" @@ app :> "app"
Shared   == a :> {app} @@ b :> {app} @@ app :> {}
Chain    == a :> {b} @@ b :> {} @@ app :> {a, b}
Cycle    == a :> {b} @@ b :> {a} @@ app :> {}
Images   == a :> i1 @@ b :> Given @@ app :> i1
Distinct == a :> i1 @@ b :> i2 @@ app :> Given
NoImage  == a :> i1 @@ b :> Unknown @@ app :> Given

ProgramsDef ==
  {Call(<<a, b>>, Shared, Names, Images, {}, v, TRUE) : v \in BOOLEAN}
    \cup {Call(<<app>>, Chain, Names, Distinct, {}, TRUE, TRUE),
          Call(<<b, a>>, Chain, Names, Distinct, {i2}, FALSE, TRUE),
          Call(<<a>>, Shared, Names, Images, {}, FALSE, FALSE),
          Call(<<a, b>>, Chain, Names, Images, {}, TRUE, TRUE), Call(<<a>>, Cycle, Names, Images, {}, TRUE, TRUE),
          Call(<<a>>, Chain, [Names EXCEPT ![b] = "a"], Images, {}, TRUE, TRUE),
          Call(<<app, b>>, Shared, Names, NoImage, {}, TRUE, TRUE)}
=============================================================================

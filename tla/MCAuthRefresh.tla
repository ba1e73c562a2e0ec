---------------------------- MODULE MCAuthRefresh ----------------------------
(* Two http calls share an authenticator; a stream has one of its own and  *)
(* the same keyring.                                                       *)
EXTENDS AuthRefresh, TLC

CONSTANTS r1, r2, r3, x1, x2

UserDef == (r1 :> x1 @@ r2 :> x1 @@ r3 :> x2)
=============================================================================

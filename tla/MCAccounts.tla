----------------------------- MODULE MCAccounts -----------------------------
(***************************************************************************)
(* Two members, m1 with two campaigns, a newcomer, three requests: first   *)
(* logins that race, a user who acts before, while and after being there,  *)
(* creations, plays and deletions in each other's way.                     *)
(***************************************************************************)
EXTENDS Accounts, TLC

CONSTANTS r1, r2, r3, m1, m2, i1, i2, i3, c1, c2

Members == m1 :> i1 @@ m2 :> i2
Owners == c1 :> m1 @@ c2 :> m1

Login(i) == [kind |-> "login", who |-> i, campaign |-> NoCampaign]
Create(u) == [kind |-> "create", who |-> u, campaign |-> NoCampaign]
PlayOn(u, c) == [kind |-> "play", who |-> u, campaign |-> c]
DeleteOf(u, c) == [kind |-> "delete", who |-> u, campaign |-> c]
Three(a, b, c) == r1 :> a @@ r2 :> b @@ r3 :> c

Everything ==
  {Three(Login(i3), Login(i3), Login(i3)),
   Three(Login(i3), Login(i3), Login(i1)),
   Three(Login(i3), Create(r1), DeleteOf(r1, r2)),
   Three(Create(m1), Create(m1), DeleteOf(m1, c1)),
   Three(Create(m1), PlayOn(m1, r1), DeleteOf(m1, r1)),
   Three(PlayOn(m1, c1), PlayOn(m1, c1), DeleteOf(m1, c1)),
   Three(PlayOn(m1, c1), PlayOn(m1, c2), DeleteOf(m1, c1)),
   Three(PlayOn(m1, c1), Create(m2), DeleteOf(m2, c1)),
   Three(PlayOn(m1, c1), PlayOn(m2, c1), Login(i3))}
=============================================================================

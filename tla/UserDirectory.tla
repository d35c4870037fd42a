--------------------------- MODULE UserDirectory ---------------------------
(***************************************************************************)
(* What POST /internal/auth/users/resolve promises: an identity has one    *)
(* user, from its first login on, and every login is told that user.       *)
(***************************************************************************)
CONSTANTS Request,   \* some of which are logins
          Identity,  \* (provider_issuer, provider_subject)
          User,      \* user ids
          NoUser

VARIABLES of,        \* the identity a login is for
          user,      \* the user of each identity
          told       \* the user each login was told
vars == <<of, user, told>>

Init == /\ \E Login \in SUBSET Request : of \in [Login -> Identity]
        /\ user \in [Identity -> User \cup {NoUser}]
        /\ told = [r \in Request |-> NoUser]

\* A user id is never given to a second identity.
Unused(u) == \A i \in Identity : user[i] # u

SignIn(l) ==
  /\ told[l] = NoUser
  /\ \/ /\ user[of[l]] # NoUser
        /\ UNCHANGED user
     \/ /\ user[of[l]] = NoUser
        /\ \E u \in User : /\ Unused(u)
                           /\ user' = [user EXCEPT ![of[l]] = u]
  /\ told' = [told EXCEPT ![l] = user'[of[l]]]
  /\ UNCHANGED of

Next == \E l \in DOMAIN of : SignIn(l)
Spec == Init /\ [][Next]_vars
=============================================================================

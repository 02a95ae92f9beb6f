----------------------------- MODULE AtomicMove -----------------------------
(***************************************************************************)
(* What `composure extract` promises about the two files it writes, with   *)
(* no steps, temporaries or failures in it: a literal of the compose file  *)
(* turns into a reference only when the `.env` already defines the name as *)
(* that literal, and the only other thing that may happen to the `.env` is *)
(* that a name appears or disappears which nothing needs: no `${n}` reads  *)
(* it, or the host sets it anyway.  A `${n:-x}` has its default.  This is  *)
(* the contract of the "ATOMICITY, IN THREE PARTS" comment of              *)
(* internal/edit/extract.go; TwoFileWrite implements it.                   *)
(***************************************************************************)
CONSTANTS Sites,      \* scalar positions of one compose file
          Names,      \* variable names; a site holding n reads `${n}`
          Literals,   \* literal values
          Fallbacks,  \* references that carry a default, `${n:-x}`
          Host,       \* [Names -> the host's own variables, Unset if none]
          Unset       \* what a name the `.env` does not define reads as

VARIABLES compose,    \* what stands at each site
          dotenv      \* the `.env`: is it there, and what each name is

vars == <<compose, dotenv>>

\* A file that is not there defines nothing.
EnvFiles == {e \in [there : BOOLEAN, vars : [Names -> Literals \cup {Unset}]] :
               ~e.there => e.vars = [n \in Names |-> Unset]}

HostSets(n) == Host[n] # Unset

Init == /\ compose \in [Sites -> Literals \cup Names \cup Fallbacks]
        /\ dotenv \in EnvFiles
        /\ \A s \in Sites : compose[s] \in Names
              => HostSets(compose[s]) \/ dotenv.vars[compose[s]] # Unset

Needless(n) == HostSets(n) \/ \A s \in Sites : compose[s] # n

Define(n, v) == /\ dotenv.vars[n] = Unset
                /\ Needless(n)
                /\ dotenv' = [there |-> TRUE, vars |-> [dotenv.vars EXCEPT ![n] = v]]
                /\ UNCHANGED compose

Undefine(n) == /\ Needless(n)
               /\ dotenv' \in EnvFiles
               /\ dotenv'.vars = [dotenv.vars EXCEPT ![n] = Unset]
               /\ UNCHANGED compose

Move(s, n) == /\ compose[s] \in Literals
              /\ dotenv.vars[n] = compose[s]
              /\ compose' = [compose EXCEPT ![s] = n]
              /\ UNCHANGED dotenv

Next == \/ \E n \in Names, v \in Literals : Define(n, v)
        \/ \E n \in Names : Undefine(n)
        \/ \E s \in Sites, n \in Names : Move(s, n)

Spec == Init /\ [][Next]_vars
=============================================================================

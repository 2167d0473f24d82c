------------------------------ MODULE ModemLease ------------------------------
(***************************************************************************)
(* What the agent promises about its modems, without the call states, the  *)
(* handlers and the sweep that implement it: a modem is leased to one call *)
(* at a time, a call gets a lease at most once in its life, and a lease    *)
(* ends by being given back or by the loss of all of them in a restart.    *)
(***************************************************************************)
CONSTANTS Calls, Modems

VARIABLES
    lease,  \* the calls each modem is leased to: none or one
    used    \* the calls that have had their lease, or never will

leaseVars == <<lease, used>>

LeaseInit ==
    /\ lease = [m \in Modems |-> {}]
    /\ used = {}

\* A call is set up with a modem that is free.
Acquire(c, m) ==
    /\ c \notin used
    /\ lease[m] = {}
    /\ lease' = [lease EXCEPT ![m] = {c}]
    /\ used' = used \cup {c}

\* A call is set up that needs no modem.
Abstain(c) ==
    /\ c \notin used
    /\ used' = used \cup {c}
    /\ UNCHANGED lease

Release(m) ==
    /\ lease[m] # {}
    /\ lease' = [lease EXCEPT ![m] = {}]
    /\ UNCHANGED used

LoseAll ==
    /\ lease' = [m \in Modems |-> {}]
    /\ UNCHANGED used

LeaseNext ==
    \/ \E c \in Calls : Abstain(c) \/ \E m \in Modems : Acquire(c, m)
    \/ \E m \in Modems : Release(m)
    \/ LoseAll

LeaseSpec == LeaseInit /\ [][LeaseNext]_leaseVars
=============================================================================

---------------------------- MODULE GovernedAction ----------------------------
(***************************************************************************)
(* What the platform promises about an action that needs an approval: it   *)
(* is asked for only on an admission, which its approval had to stand for  *)
(* and which serves once; an approval that fell never stands again, so it  *)
(* admits nothing more, though what it admitted may still be asked for;    *)
(* some actions are asked for once in all, and what lands was asked for.   *)
(***************************************************************************)
EXTENDS Naturals

CONSTANTS
    Actions,
    Once          \* the actions that are asked for at most once

VARIABLES
    standing,     \* standing[a]: of the approval of a
    admitted,     \* admitted[a]: the admissions of a that were not used yet
    asked,        \* asked[a]: how often a was asked for
    landed        \* landed[a]: how often a took effect

actionVars == <<standing, admitted, asked, landed>>

ActionInit ==
    /\ standing = [a \in Actions |-> "open"]
    /\ admitted = [a \in Actions |-> 0]
    /\ asked = [a \in Actions |-> 0]
    /\ landed = [a \in Actions |-> 0]

Permit(a) ==
    /\ standing[a] = "open"
    /\ standing' = [standing EXCEPT ![a] = "permitted"]
    /\ UNCHANGED <<admitted, asked, landed>>

Revoke(a) ==
    /\ standing' = [standing EXCEPT ![a] = "revoked"]
    /\ UNCHANGED <<admitted, asked, landed>>

Admit(a) ==
    /\ standing[a] = "permitted"
    /\ admitted' = [admitted EXCEPT ![a] = @ + 1]
    /\ UNCHANGED <<standing, asked, landed>>

\* An admission that serves nothing.
Forgo(a) ==
    /\ admitted[a] > 0
    /\ admitted' = [admitted EXCEPT ![a] = @ - 1]
    /\ UNCHANGED <<standing, asked, landed>>

Ask(a) ==
    /\ admitted[a] > 0
    /\ a \in Once => asked[a] = 0
    /\ admitted' = [admitted EXCEPT ![a] = @ - 1]
    /\ asked' = [asked EXCEPT ![a] = @ + 1]
    /\ UNCHANGED <<standing, landed>>

TakeEffect(a) ==
    /\ landed[a] < asked[a]
    /\ landed' = [landed EXCEPT ![a] = @ + 1]
    /\ UNCHANGED <<standing, admitted, asked>>

ActionNext ==
    \E a \in Actions :
        Permit(a) \/ Revoke(a) \/ Admit(a) \/ Forgo(a) \/ Ask(a) \/ TakeEffect(a)

ActionSpec == ActionInit /\ [][ActionNext]_actionVars

=============================================================================

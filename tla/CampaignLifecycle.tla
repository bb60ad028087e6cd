-------------------------- MODULE CampaignLifecycle --------------------------
(***************************************************************************)
(* What a campaign detector promises about the life of its campaigns,      *)
(* without patterns, clocks or indexes (CampaignState in                   *)
(* backtesting/intraday_campaign_detector.py).                             *)
(*                                                                         *)
(* A campaign is opened FORMING or ACTIVE, may become ACTIVE, and ends     *)
(* COMPLETED (from ACTIVE only) or FAILED; an ended campaign never changes *)
(* again, and a campaign is opened only while fewer than MaxConcurrent are *)
(* open.  One call may end several campaigns before it does its own work.  *)
(***************************************************************************)
EXTENDS Integers, Sequences, FiniteSets

CONSTANT MaxConcurrent

VARIABLE life      \* the state of every campaign, in the order they were opened

OpenStates == {"FORMING", "ACTIVE"}
LifeStates == OpenStates \cup {"COMPLETED", "FAILED"}

OpenIn(l) == {i \in DOMAIN l : l[i] \in OpenStates}

Init == life = <<>>

\* l with the campaigns in ended failed.
Failed(l, ended) == [i \in DOMAIN l |-> IF i \in ended THEN "FAILED" ELSE l[i]]

\* Time passes: some open campaigns fail.
Expire == \E ended \in SUBSET OpenIn(life) : life' = Failed(life, ended)

\* Some open campaigns fail, then a new one is opened.
Open ==
    \E ended \in SUBSET OpenIn(life), s \in OpenStates :
        /\ Cardinality(OpenIn(Failed(life, ended))) < MaxConcurrent
        /\ life' = Append(Failed(life, ended), s)

\* Some open campaigns fail, then one that is still forming becomes active.
Activate ==
    \E ended \in SUBSET OpenIn(life), i \in DOMAIN life :
        /\ Failed(life, ended)[i] = "FORMING"
        /\ life' = [Failed(life, ended) EXCEPT ![i] = "ACTIVE"]

Complete ==
    \E i \in DOMAIN life :
        /\ life[i] = "ACTIVE"
        /\ life' = [life EXCEPT ![i] = "COMPLETED"]

Next == Expire \/ Open \/ Activate \/ Complete

Spec == Init /\ [][Next]_life

-----------------------------------------------------------------------------
TypeOK == life \in Seq(LifeStates)

\* No more than max_concurrent_campaigns campaigns are ever open (AC4.11).
ConcurrencyBounded == Cardinality(OpenIn(life)) <= MaxConcurrent

\* A campaign is never forgotten, an ended one never changes, a forming one never completes.
EndingsAreFinal ==
    [][/\ DOMAIN life \subseteq DOMAIN life'
       /\ \A i \in DOMAIN life :
            /\ life[i] \in {"COMPLETED", "FAILED"} => life'[i] = life[i]
            /\ life[i] = "FORMING" => life'[i] # "COMPLETED"]_life

=============================================================================

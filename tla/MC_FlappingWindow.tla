-------------------------- MODULE MC_FlappingWindow --------------------------
(* The part of FlappingPrevention in which incidents are only created: no   *)
(* resolution lowers a count, nobody clears a site, nothing restarts.  A    *)
(* history of creation times says how many incidents a window really saw.   *)
EXTENDS FlappingPrevention

VARIABLE recent     \* history: recent[s][n], the age of the n-th latest creation

MCInit == FlappingInit /\ recent = [s \in Sites |-> [n \in 0..MaxIncidentsPerWindow |-> NoTime]]

\* The creations of s so far, with one that is made now.
Noted(s) == [n \in 0..MaxIncidentsPerWindow |-> IF n = 0 THEN 0 ELSE recent[s][n - 1]]

MCCreate(s) ==
    /\ CreateIncident(s)
    /\ recent' = IF open'[s] > open[s] THEN [recent EXCEPT ![s] = Noted(s)] ELSE recent

MCTick ==
    /\ FlappingTick
    /\ recent' = [s \in Sites |->
         [n \in 0..MaxIncidentsPerWindow |->
            IF recent[s][n] \in 0..(Window - 1) THEN recent[s][n] + 1 ELSE NoTime]]

MCNext == MCTick \/ \E s \in Sites : MCCreate(s)

MCSpec == MCInit /\ [][MCNext]_<<flappingVars, recent>>

\* What the configuration and the reason given for a refusal ("too many
\* incidents in time window") say: no window sees more incidents created
\* than maxIncidentsPerWindow.
WindowLimit == \A s \in Sites : \E n \in 0..MaxIncidentsPerWindow : recent[s][n] \notin 0..(Window - 1)
=============================================================================

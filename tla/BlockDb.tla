------------------------------ MODULE BlockDb ------------------------------
(***************************************************************************)
(* What the block database promises: one write transaction at a time sees  *)
(* the committed contents and its own changes, it takes effect as a whole  *)
(* or not at all, and a crash goes back to contents that were committed.   *)
(***************************************************************************)
VARIABLES
    view,     \* the committed contents
    stable,   \* the contents a crash goes back to
    mine      \* {the contents the write transaction sees}, {} without one

BlockDbInit == stable = view /\ mine = {}

Begin == mine = {} /\ mine' = {view} /\ UNCHANGED <<view, stable>>
Change == mine # {} /\ mine' # {} /\ UNCHANGED <<view, stable>>
Abandon == mine' = {} /\ UNCHANGED <<view, stable>>
Persist == stable' = view /\ UNCHANGED <<view, mine>>
CommitMine ==
    /\ mine = {view'}
    /\ stable' \in {stable, view'}
    /\ mine' = {}
CrashBack == view' = stable /\ mine' = {} /\ UNCHANGED stable

BlockDbNext == Begin \/ Change \/ Abandon \/ Persist \/ CommitMine \/ CrashBack

BlockDbSpec == BlockDbInit /\ [][BlockDbNext]_<<view, stable, mine>>
=============================================================================

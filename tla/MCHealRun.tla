------------------------------ MODULE MCHealRun ------------------------------
(***************************************************************************)
(* HealRun under the configurations that take different paths.             *)
(***************************************************************************)
EXTENDS HealRun

CONSTANT MaxPatches     \* largest max_patches

Base == [ mode |-> "auto", maxPatches |-> 1, limit |-> 2, allowDefer |-> FALSE,
          deepLoop |-> FALSE, cascade |-> "none", sandboxOnly |-> FALSE,
          onFailure |-> "stage", blockOnPending |-> FALSE, blockOnExplain |-> FALSE,
          cap |-> NoCap ]

\* Modes that never run a patch: only the cap matters.
Staging == {[Base EXCEPT !.mode = m, !.cap = c, !.blockOnPending = (m = "ci")] :
               m \in {"disabled", "human", "ci"}, c \in {NoCap, 1}}

\* auto makes one patch: gates inside or outside the session, both kinds of
\* validation.
Auto == {[Base EXCEPT !.deepLoop = (c # "none"), !.cascade = c, !.sandboxOnly = s,
                      !.onFailure = f, !.allowDefer = (f = "stage")] :
            c \in {"none", "tiers_silent", "tiers_deep"}, s \in BOOLEAN,
            f \in {"stage", "discard"}}

\* aggressive: several patches, every policy for one that does not help.
Aggressive == {[Base EXCEPT !.mode = "aggressive", !.limit = 1, !.maxPatches = MaxPatches,
                            !.sandboxOnly = s, !.onFailure = f, !.blockOnExplain = s,
                            !.cap = IF s THEN NoCap ELSE 3] :
                  s \in BOOLEAN, f \in {"stage", "discard", "abort"}}

Configurations == Staging \cup Auto \cup Aggressive

=============================================================================

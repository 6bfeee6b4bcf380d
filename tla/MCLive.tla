-------------------------------- MODULE MCLive --------------------------------
(***************************************************************************)
(* What must end, on small sets: the lock of an account that is no longer  *)
(* tried, and a seed that is triggered again after a failure.  The modules *)
(* share no state: part says which of them moves, and the scheduling that  *)
(* each module assumes (Fairness, SeedFairSpec) is asked of that part.     *)
(***************************************************************************)
EXTENDS AdminAuth, Seed

VARIABLE part

LiveVars == <<part, vars, seedVars>>

AuthMoves(A) == part = "auth" /\ A /\ UNCHANGED <<part, seedVars>>
SeedMoves(A) == part = "seed" /\ A /\ UNCHANGED <<part, vars>>

\* The part at rest; the seed's promise presumes its passwords, which it lacks then.
Resting ==
  /\ part = "auth" => ~passwords
  /\ part = "seed" => ~required /\ \A u \in Users : row[u] = NewRow

LiveInit == part \in {"auth", "seed"} /\ Init /\ SeedInit /\ Resting

LiveNext ==
  \/ part = "auth" /\ Next /\ UNCHANGED <<part, seedVars>>
  \/ part = "seed" /\ SeedNext /\ UNCHANGED <<part, vars>>

LiveSpec ==
  /\ LiveInit /\ [][LiveNext]_LiveVars
  /\ \A l \in Logins : WF_LiveVars(AuthMoves(LoginStep(l)))
  /\ WF_LiveVars(AuthMoves(Tick))
  /\ \A r \in Triggers : WF_LiveVars(SeedMoves(RunNext(r))) /\ WF_LiveVars(SeedMoves(SeedStart(r)))
=============================================================================

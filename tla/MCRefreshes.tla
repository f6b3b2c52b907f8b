----------------------------- MODULE MCRefreshes -------------------------------
(***************************************************************************)
(* Small instances of the two components that refresh what is cached: the  *)
(* providers' key sets and the recipes' embeddings.  They share no state;  *)
(* a behaviour is one of the component `part` names, the other keeps its   *)
(* initial state and only the running one is scheduled.                    *)
(***************************************************************************)
EXTENDS KeySets, Sequences, FiniteSets

CONSTANTS Recipes, Broken, Saves, Sweeper, Capacity, BatchSize, MaxVersion, MaxStops

ASSUME EmbeddingsAssumption ==
  /\ Recipes \subseteq Nat /\ Recipes # {}
  /\ IsFiniteSet(Saves) /\ Sweeper \notin Saves
  /\ Capacity \in Nat /\ BatchSize \in Nat /\ MaxVersion \in Nat /\ MaxStops \in Nat

VARIABLES part
VARIABLES content, gone, embedding, up, closed, wg, others, workAt, target, read,
          batch, batchOK, faults, stops

E == INSTANCE Embeddings WITH at <- workAt

embeddings == <<content, gone, embedding, up, closed, wg, others, workAt, target, read,
                batch, batchOK, faults, stops>>
allVars == <<part, vars, embeddings>>

AllInit == part \in {"keys", "embeddings"} /\ Init /\ E!Init
OfKeys(step) == part = "keys" /\ step /\ UNCHANGED <<part, embeddings>>
OfEmbeddings(step) == part = "embeddings" /\ step /\ UNCHANGED <<part, vars>>
AllNext == OfKeys(Next) \/ OfEmbeddings(E!Next)

\* The fairness of KeySets and of Embeddings.
AllFairness ==
  /\ \A v \in Verifiers : /\ WF_allVars(OfKeys(VerifierStep(v)))
                          /\ WF_allVars(OfKeys(Begin(v, key)))
  /\ \A f \in Fetches : WF_allVars(OfKeys(FetchStep(f)))
  /\ WF_allVars(OfKeys(Tick))
  /\ \A s \in Saves : /\ WF_allVars(OfEmbeddings(E!Submit(s)))
                      /\ WF_allVars(OfEmbeddings(E!TaskStep(s)))
  /\ WF_allVars(OfEmbeddings(E!SweepStep))
  /\ WF_allVars(OfEmbeddings(E!Exit)) /\ WF_allVars(OfEmbeddings(E!Start))
AllSpec == AllInit /\ [][AllNext]_allVars /\ AllFairness

\* The properties of each component, for its own behaviours.
KeysCatchUp == part = "keys" => CatchesUp
RunnerDrains == E!RunnerDrains
EventuallyEmbedded == part = "embeddings" => E!EventuallyEmbedded
EmbeddingCatchesUp == part = "embeddings" => E!EmbeddingCatchesUp
================================================================================

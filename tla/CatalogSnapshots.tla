--------------------------- MODULE CatalogSnapshots -----------------------------
(***************************************************************************)
(* The catalog snapshot that imports are mapped against                    *)
(* (internal/app/recipeimport: catalogSnapshot, InvalidateCatalog,         *)
(* newCatalogSnapshot): one cached snapshot, one build in flight, and a    *)
(* generation that tells a build it has been overtaken by a write.         *)
(*                                                                         *)
(* The catalog is the number of its writes.  A build reads it page by      *)
(* page, so a snapshot is the sequence of the versions its pages show, the *)
(* older pages first.                                                      *)
(***************************************************************************)
EXTENDS Naturals, Sequences

CONSTANTS
  Imports,   \* workers that map a draft
  Writers,   \* requests that change the catalog
  Nobody,
  Pages,     \* queries of one build
  MaxWrites  \* bound on changes of the catalog

VARIABLES
  ver,       \* the catalog
  announced, \* the newest version whose hook has run (history)
  snap,      \* s.snap, or <<>>
  unexpired, \* built within catalogSnapshotTTL
  gen,       \* s.snapGen
  leader,    \* the import that runs the build in flight
  built,     \* the pages it has read
  genSeen,   \* the generation it began with
  at,        \* where each import is
  got,       \* the snapshot it maps against
  since,     \* the version announced when it asked (history)
  wrote      \* the version each writer has committed and not announced, or 0

catalog == <<ver, announced>>
cached == <<snap, unexpired, gen>>
flight == <<leader, built, genSeen>>
import == <<at, got, since>>
vars == <<catalog, cached, flight, import, wrote>>

Init ==
  /\ ver = 1 /\ announced = 1
  /\ snap = <<>> /\ unexpired = FALSE /\ gen = 0
  /\ leader = Nobody /\ built = <<>> /\ genSeen = 0
  /\ at = [i \in Imports |-> "idle"]
  /\ got = [i \in Imports |-> <<>>]
  /\ since = [i \in Imports |-> 0]
  /\ wrote = [w \in Writers |-> 0]

Fresh == snap # <<>> /\ unexpired

\* Use takes what the import is given, and the snapshots of the others stay.
Use(i, s) ==
  /\ at' = [at EXCEPT ![i] = "mapping"] /\ got' = [got EXCEPT ![i] = s]
  /\ UNCHANGED since

-----------------------------------------------------------------------------
(* catalogSnapshot                                                         *)

Look(i) ==
  /\ at[i] = "idle"
  /\ since' = [since EXCEPT ![i] = announced]
  /\ IF Fresh THEN at' = [at EXCEPT ![i] = "mapping"] /\ got' = [got EXCEPT ![i] = snap]
              ELSE at' = [at EXCEPT ![i] = "join"] /\ UNCHANGED got
  /\ UNCHANGED <<catalog, cached, flight, wrote>>

\* snapFlight.Do: one caller builds, the others share its result.
Join(i) ==
  /\ at[i] = "join" /\ leader # Nobody
  /\ at' = [at EXCEPT ![i] = "wait"]
  /\ UNCHANGED <<catalog, cached, flight, got, since, wrote>>

\* The check under the flight, and the generation the build begins with.
Lead(i) ==
  /\ at[i] = "join" /\ leader = Nobody
  /\ IF Fresh THEN Use(i, snap) /\ UNCHANGED flight
              ELSE /\ at' = [at EXCEPT ![i] = "build"] /\ UNCHANGED <<got, since>>
                   /\ leader' = i /\ built' = <<>> /\ genSeen' = gen
  /\ UNCHANGED <<catalog, cached, wrote>>

\* newCatalogSnapshot: each page is a query of its own.
ReadPage(i) ==
  /\ leader = i /\ Len(built) < Pages
  /\ built' = Append(built, ver)
  /\ UNCHANGED <<catalog, cached, leader, genSeen, import, wrote>>

Land ==
  /\ leader' = Nobody /\ built' = <<>> /\ genSeen' = 0

\* Installed unless a write was announced meanwhile; everybody who waited for
\* the build uses it all the same.  (Mutant: installed whatever happened.)
MutantNotOvertaken == TRUE
NotOvertaken == gen = genSeen
Shared(s) ==
  /\ at' = [j \in Imports |-> IF at[j] \in {"build", "wait"} THEN "mapping" ELSE at[j]]
  /\ got' = [j \in Imports |-> IF at[j] \in {"build", "wait"} THEN s ELSE got[j]]
Install(i) ==
  /\ leader = i /\ Len(built) = Pages
  /\ IF NotOvertaken THEN snap' = built /\ unexpired' = TRUE ELSE UNCHANGED <<snap, unexpired>>
  /\ Shared(built) /\ Land
  /\ UNCHANGED <<catalog, gen, since, wrote>>

\* A query fails, or the builder's stage times out: the stage of every import
\* that shares the build fails with it.
BuildFails(i) ==
  /\ leader = i
  /\ at' = [j \in Imports |-> IF at[j] \in {"build", "wait"} THEN "idle" ELSE at[j]]
  /\ Land
  /\ UNCHANGED <<catalog, cached, got, since, wrote>>

Mapped(i) ==
  /\ at[i] = "mapping" /\ at' = [at EXCEPT ![i] = "idle"]
  /\ got' = [got EXCEPT ![i] = <<>>] /\ since' = [since EXCEPT ![i] = 0]
  /\ UNCHANGED <<catalog, cached, flight, wrote>>

-----------------------------------------------------------------------------
(* Catalog writes, and the clock                                           *)

\* A change of items, ingredients or units commits; another server's changes
\* are announced to nobody here.
Write(w) ==
  /\ wrote[w] = 0 /\ ver <= MaxWrites
  /\ ver' = ver + 1 /\ wrote' = [wrote EXCEPT ![w] = ver + 1]
  /\ UNCHANGED <<announced, cached, flight, import>>
WriteElsewhere ==
  /\ ver <= MaxWrites /\ ver' = ver + 1
  /\ UNCHANGED <<announced, cached, flight, import, wrote>>

\* noteCatalogChange: InvalidateCatalog.
InvalidateCatalog(w) ==
  /\ wrote[w] # 0
  /\ snap' = <<>> /\ gen' = gen + 1 /\ UNCHANGED unexpired
  /\ announced' = IF wrote[w] > announced THEN wrote[w] ELSE announced
  /\ wrote' = [wrote EXCEPT ![w] = 0]
  /\ UNCHANGED <<ver, flight, import>>

Expire ==
  /\ unexpired /\ unexpired' = FALSE
  /\ UNCHANGED <<catalog, snap, gen, flight, import, wrote>>

ImportStep(i) ==
  Look(i) \/ Join(i) \/ Lead(i) \/ ReadPage(i) \/ Install(i) \/ BuildFails(i) \/ Mapped(i)

Next ==
  \/ \E i \in Imports : ImportStep(i)
  \/ \E w \in Writers : Write(w) \/ InvalidateCatalog(w)
  \/ WriteElsewhere \/ Expire

Spec == Init /\ [][Next]_vars

-----------------------------------------------------------------------------
(* Properties                                                              *)

\* Every page of the cached snapshot is as new as the last write announced
\* here: a build that a write overtook is never installed, however their steps
\* interleave (InvalidateCatalog: "must not be installed when its in-flight
\* build completes").
InstalledFresh == \A p \in DOMAIN snap : snap[p] >= announced

\* Violated: InvalidateCatalog "drops the cached snapshot so the next import
\* maps against fresh catalog data".  The next import may join a build that
\* began before.
NextImportFresh ==
  \A i \in Imports : \A p \in DOMAIN got[i] : got[i][p] >= since[i]
=============================================================================

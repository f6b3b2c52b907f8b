----------------------------- MODULE MCHousehold -----------------------------
(***************************************************************************)
(* Three users: a owns the household h1 and b administers it, c owns h2    *)
(* and b is also a member there; b has sent c an invite to h1.  Beside     *)
(* that, and sharing no state with it, the stock of one item in two        *)
(* households, one of which goes.  A behaviour is one of the component     *)
(* `part` names, the other keeps its initial state.                        *)
(***************************************************************************)
EXTENDS Household, TLC

CONSTANTS a, b, c, h1, h2, h3, h4, MaxQty, Nobody

VARIABLES part
VARIABLES cellar, row, seen, owner, at, op, house, held, plan, mergeAt, folded, net, credited,
          victim

S == INSTANCE Stock WITH Requests <- Slots, raced <- credited

ASSUME StockAssumption ==
  /\ IsFiniteSet(Slots) /\ Nobody # S!Merge /\ {Nobody, S!Merge} \cap Slots = {}
  /\ None \notin [id : S!Ids, qty : Nat] \cup [qty : Nat, into : S!Ids]

stock == <<cellar, row, seen, owner, at, op, house, held, plan, mergeAt, folded, net,
           credited, victim>>

AllInit ==
  /\ part \in {"membership", "stock"} /\ Init /\ S!Init
  /\ part = "membership" => seen = [h \in S!Parties |-> None] /\ ~cellar /\ plan = "merge"
AllNext ==
  /\ \/ part = "membership" /\ Next /\ UNCHANGED stock
     \/ part = "stock" /\ S!Next /\ UNCHANGED vars
  /\ UNCHANGED part
AllSpec == AllInit /\ [][AllNext]_<<part, vars, stock>>

\* The properties of Stock under their own names.
StockConsistent == part = "stock" => S!StockConsistent
StockSummed == S!StockSummed
OmittedPreserved == S!OmittedPreserved
FavoriteKeepsStock == S!FavoriteKeepsStock

MCUsers == {a, b, c}
MCHouseholds == {h1, h2, h3, h4}
MCFounding == <<Row(h1, a, "owner"), Row(h1, b, "admin"), Row(h2, c, "owner"),
                Row(h2, b, "member")>>
MCPointed == (a :> h1) @@ (b :> h1) @@ (c :> h2)
MCInvited == {Invite(b, c, h1)}
MCSymmetry == Permutations({h3, h4}) \cup Permutations(Slots)
=============================================================================

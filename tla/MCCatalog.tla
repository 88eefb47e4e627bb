----------------------------- MODULE MCCatalog ------------------------------
(* A catalog page beside the stock engine, with two variants and two         *)
(* warehouses, the default not the lower id, of which the first variant may  *)
(* get another SKU while the second has no stock; or the pages that build    *)
(* the variants of a product, with two colours and a length to combine and   *)
(* up to three variants, of which one has history, and one thing about the   *)
(* library or the product changes at a time.  Only one of the two sides      *)
(* moves in a behaviour: they share no row.                                  *)
EXTENDS CatalogEdits, StockReports, VariantBuilder, TLC

CONSTANTS v1, v2, a, b, z, black, white, metre, Black, White, Metre, Onyx

MCWarehouses == {1, 2}
MCDefault == 2

MCRows == {1, 2, 3}
MCAttributes == {1, 2}
MCAttributeOf == (black :> 1) @@ (white :> 1) @@ (metre :> 2)
MCFirstLabel == (black :> Black) @@ (white :> White) @@ (metre :> Metre)
MCPlainNames == {<<"Default">>, <<Black>>}

Edited == {x \in Values : library[x] # [label |-> MCFirstLabel[x], active |-> TRUE]}
Asked == {v \in Rows : asked[v] # {}}
In(state) == {v \in Rows : rows[v].state = state}

\* Black may get another name, any value may be disabled or deleted.
OneEdit ==
    /\ Cardinality(Edited) <= 1
    /\ \A x \in Edited : \/ library[x] \in {Removed, [label |-> MCFirstLabel[x], active |-> FALSE]}
                         \/ library[x] = [label |-> Onyx, active |-> TRUE] /\ x = black

PlainlyNamed == \A v \in Rows : rows[v].values = {} => rows[v].name # <<Black>>

\* With a third variant, the first alone has history, one row at most is inactive, and
\* the rest is as created.
ThirdRow ==
    /\ Cardinality(Existing \ ActiveIn(rows)) <= 1
    /\ Edited = {} /\ In("erased") = {} /\ product = "active"
    /\ \A v \in Rows : uses[v] = "none" \/ (v = 1 /\ uses[v] = "traded")
    /\ PlainlyNamed

\* Deletions overlap where there are two rows, plain or with a colour, named as created.
TwoColours ==
    /\ rows[3].state = "unborn"
    /\ \A v \in Existing : rows[v].name \in {Plain, <<Black>>, <<White>>}
                         /\ (rows[v].name = Plain <=> rows[v].values = {})

InBounds ==
    /\ Cardinality({v \in Rows : uses[v] # "none"}) <= 1
    /\ OneEdit
    /\ Edited # {} => PlainlyNamed
    /\ product # "draft"
    /\ product = "archived" => Edited = {} /\ In("unborn") = {2, 3}
    /\ In("erased") # {} /\ product # "gone" => Cardinality(In("erased")) = 1 /\ Edited = {}
    /\ Asked # {} => product = "active" /\ Edited = {} /\ TwoColours
    /\ rows[3].state = "row" => ThirdRow

FirstSku == (v1 :> a) @@ (v2 :> z)

\* The first variant has, or had, another SKU than it was created with.
Renamed == \/ skuOf # FirstSku
           \/ \E w \in Warehouses : DOMAIN shown[<<w, v1>>] \ {a} # {}

SaveForm ==
    /\ \E sku \in Skus, desired \in 0 .. MaxQty : SaveVariantForm(v1, sku, desired)
    /\ UNCHANGED loaded

\* An instance saves the SKU it was loaded with, so none is loaded around a change of it;
\* the first warehouse then has a unit at most.
RenamedAlone ==
    Renamed => /\ bal[<<1, v1>>].onHand <= 1
               /\ \A w \in Warehouses : shown[<<w, v2>>] = <<>>
               /\ \A e \in Editors : loaded[e] = NoInstance

StockInit == EditInit /\ ReportInit /\ skuOf = FirstSku

CatalogInit == StockInit /\ BuilderInit

StockNext ==
    /\ \/ EditNext /\ UNCHANGED skuOf
       \/ SaveForm
    /\ Labelled
    /\ RenamedAlone'

CatalogNext ==
    \/ BuilderInit /\ StockNext /\ UNCHANGED builderVars
    \/ StockInit /\ BuilderNext /\ InBounds' /\ UNCHANGED <<editVars, skuOf, shown>>

CatalogSpec == CatalogInit /\ [][CatalogNext]_<<editVars, skuOf, shown, builderVars>>
=============================================================================

--------------------------- MODULE VariantBuilder ---------------------------
(***************************************************************************)
(* The variants of one product and the library of attribute values they    *)
(* combine: backoffice/variant_views.py, variant_builder_views.py and      *)
(* catalog/variant_services.py.  A variant is the unit stock and orders    *)
(* refer to, so once it has stock or business history the pages must       *)
(* neither recombine nor delete it.                                        *)
(*                                                                         *)
(* SKUs, prices, images and presets are left out.  A display name is the   *)
(* sequence of the labels its values had when it was written, in the order *)
(* of their attributes.  No page locks the product.  The delete button     *)
(* asks in one step and deletes in another; a form or a table, which loads *)
(* what it saves in the same request, is one step.                         *)
(*                                                                         *)
(* When a form is valid its new values are already those of the instance   *)
(* it edits (django's ModelForm), so the tests that compare the two        *)
(* afterwards never find a new name, a new SKU or an active variant that   *)
(* is being switched off; only the test of the values, which are rows of   *)
(* their own, refuses anything.                                            *)
(***************************************************************************)
EXTENDS Naturals, Sequences, FiniteSetsExt, Functions

LOCAL INSTANCE SequencesExt

CONSTANTS
    Rows,           \* primary keys a ProductVariant of the product may get
    Attributes,     \* VariantAttribute rows: numbers, in their sort order
    Values,         \* VariantAttributeValue rows
    AttributeOf,    \* AttributeOf[x]: the attribute of value x
    Labels,         \* display values
    FirstLabel,     \* FirstLabel[x]: the display value x is created with
    PlainNames      \* names typed in for variants without values

ASSUME BuilderAssumption ==
    /\ Rows \subseteq Nat /\ Rows # {} /\ Attributes \subseteq Nat
    /\ IsFiniteSet(Rows) /\ IsFiniteSet(Values)
    /\ AttributeOf \in [Values -> Attributes]
    /\ FirstLabel \in [Values -> Labels]
    /\ <<"Default">> \in PlainNames

VARIABLES
    product,        \* status of the product, "gone" once it is deleted
    rows,           \* its ProductVariant rows with their ProductVariantValue rows
    uses,           \* uses[v]: "traded" with sales, purchases or serials, "stocked" with
                    \* stock movements alone, else "none"
    library,        \* library[x]: label and is_active of value x, Removed once deleted
    asked           \* asked[v]: what a deletion of v has found out so far: "open" once its
                    \* tests have passed, "default" and "unused" if v was; {} without one

builderVars == <<product, rows, uses, library, asked>>

NoRow(state) == [state |-> state, name |-> <<>>, values |-> {}, default |-> FALSE, active |-> FALSE]
Unborn  == NoRow("unborn")
Erased  == NoRow("erased")
Removed == [label |-> "removed", active |-> FALSE]

Plain == <<"Default">>

\* The row a product is created with.
PlainRow == [state |-> "row", name |-> Plain, values |-> {}, default |-> TRUE, active |-> TRUE]

ExistingIn(t) == {v \in Rows : t[v].state = "row"}
Existing == ExistingIn(rows)
ActiveIn(t) == {v \in ExistingIn(t) : t[v].active}

ByAttribute(x, y) == AttributeOf[x] <= AttributeOf[y]

\* variant_name.
NameOf(s) ==
    LET ordered == SetToSortSeq(s, ByAttribute)
    IN [i \in DOMAIN ordered |-> library[ordered[i]].label]

\* variant_usage_reasons: why the identity of v may not change any more.
UsageReasons(v) == uses[v] # "none"

\* The active values of active attributes.
Offered == {x \in Values : library[x].active}

AttributesOf(s) == {AttributeOf[x] : x \in s}

\* Attributes some variant of the product has a value for.
ProductAttributes == UNION {AttributesOf(rows[v].values) : v \in Existing}

OneEach(s) == \A x, y \in s : AttributeOf[x] = AttributeOf[y] => x = y

\* _ensure_default_variant: the first active row, when no active row is the default.
EnsureDefault(t) ==
    IF ActiveIn(t) = {} \/ \E v \in ActiveIn(t) : t[v].default THEN t
    ELSE [v \in Rows |-> [t[v] EXCEPT !.default = (v = Min(ActiveIn(t)))]]

-----------------------------------------------------------------------------
(* generate_variant_combinations *)

\* Slip: a row with stock or history is remapped to the combination.
ReusableThoughUsed(t, taken, target) ==
    {v \in ExistingIn(t) \ taken : t[v].values \subseteq target}

\* _safe_reusable_variant: unused rows whose values are among those of the target,
\* the most specific, then the default, then the oldest first.
Reusable(t, taken, target) ==
    {v \in ExistingIn(t) \ taken : t[v].values \subseteq target /\ ~UsageReasons(v)}

Reuse(t, candidates) ==
    LET rank(v) == <<Cardinality(t[v].values), IF t[v].default THEN 1 ELSE 0>>
        better(v, w) ==
            \/ rank(v)[1] > rank(w)[1]
            \/ rank(v)[1] = rank(w)[1] /\ rank(v)[2] > rank(w)[2]
            \/ rank(v) = rank(w) /\ v < w
    IN CHOOSE v \in candidates : \A w \in candidates \ {v} : better(v, w)

\* One combination: skipped when a row has it, else a row is reused or created.
\* The whole request fails when another row has the name.
Combine(done, target) ==
    LET t == done.rows
        candidates == Reusable(t, done.taken, target)
        fresh == {v \in Rows : t[v].state = "unborn"}
        isNew == candidates = {}
        v == IF isNew THEN Min(fresh) ELSE Reuse(t, candidates)
        row == [state |-> "row", name |-> NameOf(target), values |-> target, active |-> TRUE,
                default |-> IF isNew THEN ~\E w \in ActiveIn(t) : t[w].default ELSE t[v].default]
    IN IF done.failed \/ \E w \in ExistingIn(t) : t[w].values = target THEN done
       ELSE IF \/ isNew /\ fresh = {}
               \/ \E w \in ExistingIn(t) : t[w].name = NameOf(target) /\ (isNew \/ w # v)
            THEN [done EXCEPT !.failed = TRUE]
       ELSE [rows |-> [t EXCEPT ![v] = row], taken |-> done.taken \cup {v}, failed |-> FALSE,
             first |-> IF done.first = {} THEN {v} ELSE done.first]

\* One combination after the other.
Combined(combinations) ==
    LET done[k \in 0 .. Len(combinations)] ==
            IF k = 0 THEN [rows |-> rows, taken |-> {}, failed |-> FALSE, first |-> {}]
            ELSE Combine(done[k - 1], combinations[k])
    IN done[Len(combinations)]

\* Once all are combined, the first row written becomes the default of a product
\* that has no active one.
Generated(combinations) ==
    LET all == Combined(combinations)
        lacking == ~\E v \in ActiveIn(all.rows) : all.rows[v].default
    IN [rows |-> [v \in Rows |-> IF lacking /\ v \in all.first
                                 THEN [all.rows[v] EXCEPT !.default = TRUE] ELSE all.rows[v]],
        failed |-> all.failed]

\* The combinations the preview offers for the chosen values: one of each attribute.
CombinationsOf(chosen) ==
    {s \in SUBSET chosen : OneEach(s) /\ AttributesOf(s) = AttributesOf(chosen)}

Generate ==
    \E chosen \in SUBSET Offered \ {{}} :
    \E picked \in SUBSET CombinationsOf(chosen) \ {{}} :
    \E combinations \in [1 .. Cardinality(picked) -> picked] :
        LET result == Generated(combinations) IN
        /\ product # "gone"
        /\ IsInjective(combinations)
        /\ ~result.failed
        /\ rows' = result.rows
        /\ UNCHANGED <<product, uses, library, asked>>

-----------------------------------------------------------------------------
(* The variant pages *)

\* Slip: only combinations are compared.
OtherThan(v, chosen, name) == \A w \in Existing \ {v} : chosen # {} => rows[w].values # chosen

\* No other row has the combination or the name.
Distinct(v, chosen, name) ==
    \A w \in Existing \ {v} : /\ rows[w].name # name
                              /\ chosen # {} => rows[w].values # chosen

\* StructuredProductVariantForm: the values are offered ones, one for each attribute
\* of the product when it has any.
FormAccepts(v, chosen, name, default, active) ==
    /\ ProductAttributes # {} => AttributesOf(chosen) \subseteq ProductAttributes
    /\ OneEach(chosen)
    /\ chosen # {} => ProductAttributes \subseteq AttributesOf(chosen)
    /\ default => active
    /\ Distinct(v, chosen, name)

\* _protect_used_variant_identity: the combination of a used variant stays.
KeepsIdentity(v, chosen) == UsageReasons(v) => chosen = rows[v].values

\* The new row, the only default one if it is a default, and the fallback default.
Stored(v, row) ==
    EnsureDefault([w \in Rows |-> IF w = v THEN row
                                  ELSE [rows[w] EXCEPT !.default = @ /\ ~row.default]])

\* variant_form of an existing row, the last active one not excepted.
EditVariant(v) ==
    \E chosen \in SUBSET Offered, default, active \in BOOLEAN :
    \E name \in IF chosen = {} THEN PlainNames ELSE {NameOf(chosen)} :
        /\ v \in Existing
        /\ FormAccepts(v, chosen, name, default, active)
        /\ KeepsIdentity(v, chosen)
        /\ rows' = Stored(v, [state |-> "row", name |-> name, values |-> chosen,
                              default |-> default, active |-> active])
        /\ UNCHANGED <<product, uses, library, asked>>

\* variant_form of a new row.
AddVariant ==
    \E chosen \in SUBSET Offered, default, active \in BOOLEAN :
    \E name \in IF chosen = {} THEN PlainNames ELSE {NameOf(chosen)} :
        LET fresh == {v \in Rows : rows[v].state = "unborn"} IN
        /\ product # "gone"
        /\ fresh # {}
        /\ FormAccepts(Min(fresh), chosen, name, default, active)
        /\ rows' = Stored(Min(fresh), [state |-> "row", name |-> name, values |-> chosen,
                                       default |-> default, active |-> active])
        /\ UNCHANGED <<product, uses, library, asked>>

\* The delete button: neither the last row nor the last active one.
Deletable(v) == v \in Existing /\ Existing # {v} /\ ActiveIn(rows) # {v}

\* The button: what the request reads before it writes.
AskDelete(v) ==
    /\ asked[v] = {}
    /\ Deletable(v)
    /\ asked' = [asked EXCEPT ![v] = {"open"} \cup (IF rows[v].default THEN {"default"} ELSE {})
                                            \cup (IF UsageReasons(v) THEN {} ELSE {"unused"})]
    /\ UNCHANGED <<product, rows, uses, library>>

\* A used row, if it is still there, is deactivated and the first active row takes over.
Retire(v) ==
    /\ UsageReasons(v)
    /\ rows' = IF v \notin Existing THEN rows
               ELSE EnsureDefault([rows EXCEPT ![v].active = FALSE, ![v].default = FALSE])

\* Slip: nobody takes over from the default.
EraseAlone(v) ==
    /\ "unused" \in asked[v]
    /\ rows' = IF uses[v] = "traded" THEN rows ELSE [rows EXCEPT ![v] = Erased]

\* A row found unused is deleted with the stock it has got since; the first active row
\* takes over if it was found to be the default.  Trade it has got since protects it.
Erase(v) ==
    LET left == [rows EXCEPT ![v] = Erased] IN
    /\ "unused" \in asked[v]
    /\ rows' = IF uses[v] = "traded" THEN rows
               ELSE IF "default" \in asked[v] THEN EnsureDefault(left) ELSE left

\* Usage is read last, so a use that has come in between may or may not be seen.
DeleteVariant(v) ==
    /\ asked[v] # {}
    /\ Retire(v) \/ Erase(v)
    /\ asked' = [asked EXCEPT ![v] = {}]
    /\ UNCHANGED <<product, uses, library>>

\* _bulk_save_variants: the table as it was rendered, some rows of it active, one of
\* them perhaps the default; rows added since are not in it.
BulkSave(listed, active, default) ==
    /\ listed # {}
    /\ active = {} => ActiveIn(rows) \ listed # {}
    /\ rows' = EnsureDefault([v \in Rows |->
                  IF v \in listed THEN [rows[v] EXCEPT !.active = v \in active, !.default = v \in default]
                  ELSE [rows[v] EXCEPT !.default = @ /\ default = {}]])
    /\ UNCHANGED <<product, uses, library, asked>>

-----------------------------------------------------------------------------
(* The product, its history and the library *)

\* Stock is received for a row, or a purchase, an order or a serial names it.
Use(v, kind) ==
    /\ v \in Existing
    /\ uses[v] # "traded" /\ uses[v] # kind
    /\ uses' = [uses EXCEPT ![v] = kind]
    /\ UNCHANGED <<product, rows, library, asked>>

\* The archive button and the bulk actions of the product list.
SetStatus(status) ==
    /\ product \notin {"gone", status}
    /\ product' = status
    /\ UNCHANGED <<rows, uses, library, asked>>

\* product_edit; _save_default_variant makes the first row the default if none is, an
\* inactive one too, and a plain one if there is no row.
SaveProduct(status) ==
    LET fresh == {v \in Rows : rows[v].state = "unborn"} IN
    /\ product # "gone"
    /\ product' = status
    /\ IF Existing = {} THEN fresh # {} /\ rows' = [rows EXCEPT ![Min(fresh)] = PlainRow]
       ELSE rows' = IF \E v \in Existing : rows[v].default THEN rows
                    ELSE [rows EXCEPT ![Min(Existing)].default = TRUE]
    /\ UNCHANGED <<uses, library, asked>>

\* _delete_or_archive_product: purchases, orders and serials protect the product,
\* stock movements do not.
DeleteProduct ==
    /\ product # "gone"
    /\ IF \E v \in Existing : uses[v] = "traded"
       THEN product' = "archived" /\ UNCHANGED rows
       ELSE product' = "gone" /\ rows' = [v \in Rows |-> Erased]
    /\ UNCHANGED <<uses, library, asked>>

\* variant_attributes: values are renamed, disabled and enabled; deleting one is
\* refused while a variant has it.
RenameValue(x, label) ==
    /\ library[x] # Removed
    /\ \A y \in Values : AttributeOf[y] = AttributeOf[x] => library[y].label # label
    /\ library' = [library EXCEPT ![x].label = label]
    /\ UNCHANGED <<product, rows, uses, asked>>

ToggleValue(x) ==
    /\ library[x] # Removed
    /\ library' = [library EXCEPT ![x].active = ~@]
    /\ UNCHANGED <<product, rows, uses, asked>>

DeleteValue(x) ==
    /\ library[x] # Removed
    /\ \A v \in Existing : x \notin rows[v].values
    /\ library' = [library EXCEPT ![x] = Removed]
    /\ UNCHANGED <<product, rows, uses, asked>>

-----------------------------------------------------------------------------

\* A product is created with one plain row.
BuilderInit ==
    /\ product = "active"
    /\ rows = [v \in Rows |-> IF v # Min(Rows) THEN Unborn ELSE PlainRow]
    /\ uses = [v \in Rows |-> "none"]
    /\ library = [x \in Values |-> [label |-> FirstLabel[x], active |-> TRUE]]
    /\ asked = [v \in Rows |-> {}]

Edit   == \E v \in Rows : EditVariant(v)
Delete == \E v \in Rows : AskDelete(v) \/ DeleteVariant(v)
Bulk   == \E listed \in SUBSET Existing : \E active \in SUBSET listed :
              \E default \in {{}} \cup {{v} : v \in active} : BulkSave(listed, active, default)
Touch  == \E v \in Rows, kind \in {"stocked", "traded"} : Use(v, kind)
Status == \E status \in {"active", "draft", "archived"} : SetStatus(status) \/ SaveProduct(status)
Curate == \E x \in Values : ToggleValue(x) \/ DeleteValue(x) \/ \E l \in Labels : RenameValue(x, l)

BuilderNext ==
    Generate \/ Edit \/ AddVariant \/ Delete \/ Bulk \/ Touch \/ Status \/ DeleteProduct \/ Curate

BuilderSpec == BuilderInit /\ [][BuilderNext]_builderVars

-----------------------------------------------------------------------------
(* Properties *)

\* One row is the default, and it is active.
SoundDefault == \E v \in ActiveIn(rows) : \A w \in Existing : rows[w].default <=> w = v

\* A deletion of v is carried out although v has become the only active row, or the
\* default, since it was tested.
LateDeletion(v) ==
    /\ asked[v] # {} /\ asked'[v] = {}
    /\ ActiveIn(rows) \subseteq {v} \/ (rows[v].default /\ "default" \notin asked[v])

\* The storefront and the product form rely on one default variant that is active; the
\* generator, the table, the forms and the delete button keep it so.  Only two things
\* do not: a form that switches the only active variant off, whose test never fires,
\* and a deletion that comes late (backoffice/variant_views.py:178, :224).
OneActiveDefault ==
    [][SoundDefault /\ product' # "gone" =>
          \/ SoundDefault'
          \/ \E v \in Rows : ActiveIn(rows) = {v} /\ EditVariant(v)
          \/ \E v \in Rows : LateDeletion(v)]_builderVars

\* No two variants of a product are the same combination or have the same name, and
\* none has two values of an attribute, by whichever page they were made.
CombinationsDistinct ==
    \A v, w \in Existing :
        /\ OneEach(rows[v].values)
        /\ v # w => /\ rows[v].name # rows[w].name
                    /\ rows[v].values = rows[w].values => rows[v].values = {}

\* Once it has stock or business history, a variant keeps its combination for ever.  Its
\* row goes only without trade, and then with its whole product or by a deletion that
\* had found it unused before its stock came (catalog/variant_services.py:15,
\* backoffice/variant_views.py:80).
UsedKeepIdentity ==
    [][\A v \in Existing : UsageReasons(v) =>
          IF rows'[v].state = "row" THEN rows'[v].values = rows[v].values
          ELSE /\ uses[v] # "traded"
               /\ product' = "gone" \/ ("unused" \in asked[v] /\ asked'[v] = {})]_builderVars
=============================================================================

------------------------------ MODULE HKImages ------------------------------
(***************************************************************************)
(* Images and the selectors that name them: HKImageCatalog.c, which lists  *)
(* the images of the process, HKImageScope.c, which checks an address      *)
(* against a selector, the copy of a selector in HKPlan.c and its part of  *)
(* the ownership key in HKOwnership.c.                                     *)
(*                                                                         *)
(* A selector is a node of a graph: an explicit set points at its members, *)
(* and a caller can build one that contains itself.                        *)
(***************************************************************************)
EXTENDS Naturals, Sequences, SequencesExt

CONSTANTS
    Selectors,
    SelectorKind,   \* "any", "main", "path", "uuid", "header" or "set"
    SelectorValue,  \* what a path, UUID or header selector asks for
    Members,        \* [Selectors -> Seq(Selectors)], explicit_set
    MaxDepth        \* HK_MAX_IMAGE_SELECTOR_DEPTH, 32 in the code

ASSUME SelectorsAssumption ==
    /\ SelectorKind \in [Selectors ->
                            {"any", "main", "path", "uuid", "header", "set"}]
    /\ Members \in [Selectors -> Seq(Selectors)]
    /\ \A s \in Selectors : SelectorKind[s] # "set" => Members[s] = <<>>
    /\ MaxDepth \in Nat \ {0}

IsSet(s) == SelectorKind[s] = "set"

-----------------------------------------------------------------------------
(* Copying a selector when a hook is added.                                *)

\* Mutant: the copy goes one level deeper than the key.
CopiedDeeper ==
    LET within[r \in 0..(MaxDepth + 1)] ==
          {s \in Selectors : IF r = 0 THEN Members[s] = <<>>
                             ELSE ToSet(Members[s]) \subseteq within[r - 1]}
    IN within[MaxDepth + 1]

\* hk_image_selector_copy_owned: the selectors that can be copied with r levels
\* left.
Copied ==
    LET within[r \in 0..MaxDepth] ==
          {s \in Selectors : IF r = 0 THEN Members[s] = <<>>
                             ELSE ToSet(Members[s]) \subseteq within[r - 1]}
    IN within[MaxDepth]

\* hk_image_selector_copy.  The caller's tree is not used after it.
SelectorCopied(s) == s \in Copied

-----------------------------------------------------------------------------
(* The catalog.  An image is a record                                      *)
(*   path, uuid ("none" when it has no LC_UUID), header, main,             *)
(*   parsed: hk_macho_peek_header reads its header,                        *)
(*   bounded: its load commands give a span, first..last.                  *)

Listed(image) == image.parsed

\* hk_image_catalog_populate_from_dyld: an image whose header cannot be read is
\* left out; the walk stops where memory for an entry runs out.
Populate(loaded, memory) ==
    LET entries[n \in 0..Len(loaded)] ==
          IF n = 0 THEN <<>>
          ELSE IF Listed(loaded[n]) /\ Len(entries[n - 1]) < memory
               THEN Append(entries[n - 1], loaded[n])
               ELSE entries[n - 1]
    IN entries[Len(loaded)]

\* entry_matches_selector for the kinds other than the explicit set.
LeafMatches(image, s) ==
    CASE SelectorKind[s] = "any"    -> TRUE
      [] SelectorKind[s] = "main"   -> image.main
      [] SelectorKind[s] = "path"   -> image.path = SelectorValue[s]
      [] SelectorKind[s] = "uuid"   -> /\ image.uuid # "none"
                                       /\ image.uuid = SelectorValue[s]
      [] SelectorKind[s] = "header" -> image.header = SelectorValue[s]
      [] OTHER                      -> FALSE

\* entry_matches_selector on a copied selector, whose depth is bounded.
EntryMatches(image, s) ==
    LET matching[r \in 0..MaxDepth] ==
          {t \in Selectors :
              \/ LeafMatches(image, t)
              \/ r > 0 /\ ToSet(Members[t]) \cap matching[r - 1] # {}}
    IN s \in matching[MaxDepth]

\* hk_image_catalog_match: the entries it visits.
CatalogMatch(catalog, s) == {image \in ToSet(catalog) : EntryMatches(image, s)}

-----------------------------------------------------------------------------
(* The scope checks.  uuid is "any" when the request expects none.         *)

\* Mutant: a build is not compared when the image has no UUID.
RightBuildOrUnknown(image, uuid) == uuid = "any" \/ image.uuid \in {uuid, "none"}

\* An entry without a UUID never satisfies an expected one.
RightBuild(image, uuid) == uuid = "any" \/ image.uuid = uuid

\* Mutant: the end of an image belongs to it.
HoldsEnd(image, address) ==
    image.bounded /\ address >= image.first /\ address <= image.last

Holds(image, address) ==
    image.bounded /\ address >= image.first /\ address < image.last

\* hk_image_scope_check with scope_visit.  The walk stops at the first entry that
\* contains the address, which decides the answer, so the flags are sets here.
ScopeCheck(catalog, s, uuid, address) ==
    LET named == CatalogMatch(catalog, s)
        right == {image \in named : RightBuild(image, uuid)}
    IN  CASE catalog = <<>>                             -> "NO_CATALOG"
          [] catalog # <<>> /\ \E image \in right : Holds(image, address)
                                                        -> "OK"
          [] OTHER ->
               CASE named = {}                          -> "NO_MATCH"
                 [] named # {} /\ right = {}            -> "UUID_MISMATCH"
                 [] \E image \in right : ~image.bounded -> "UNREADABLE_IMAGE"
                 [] OTHER                               -> "ADDRESS_OUTSIDE"

\* hk_image_scope_check_header with header_visit: identity, not containment.
ScopeCheckHeader(catalog, s, uuid, header) ==
    LET named == CatalogMatch(catalog, s)
        right == {image \in named : RightBuild(image, uuid)}
    IN  CASE catalog = <<>>                             -> "NO_CATALOG"
          [] \E image \in right : image.header = header -> "OK"
          [] OTHER -> IF named # {} /\ right = {} THEN "UUID_MISMATCH"
                                                  ELSE "NO_MATCH"

\* What every adapter makes of the status: no catalog is a skip, not a refusal.
ScopeAccepts(status) == status \in {"OK", "NO_CATALOG"}

-----------------------------------------------------------------------------
(* The ownership key of a selector.                                        *)

LeafKey(s) ==
    IF SelectorKind[s] \in {"path", "uuid", "header"}
    THEN <<SelectorKind[s], SelectorValue[s]>>
    ELSE <<SelectorKind[s]>>

\* Mutant: the members of a set keep their order and their repetitions.
CollectedInOrder(s) ==
    IF IsSet(s)
    THEN [ok |-> TRUE, keys |-> {<<"in-order", Members[s]>>}]
    ELSE [ok |-> TRUE, keys |-> {LeafKey(s)}]

\* key_selector_collect: the keys of the leaves below a selector; FALSE where the
\* walk goes too deep.
Collected(s) ==
    LET leaves[r \in 0..MaxDepth] ==
          [t \in Selectors |->
              IF ~IsSet(t) THEN [ok |-> TRUE, keys |-> {LeafKey(t)}]
              ELSE IF r = 0
                   THEN [ok |-> Members[t] = <<>>, keys |-> {}]
                   ELSE [ok |-> \A m \in ToSet(Members[t]) : leaves[r - 1][m].ok,
                         keys |-> UNION {leaves[r - 1][m].keys :
                                            m \in ToSet(Members[t])}]]
    IN leaves[MaxDepth][s]

\* Mutant: only the kind of a selector reaches the key.
SelectorKeyKindOnly(s) == <<SelectorKind[s]>>

\* key_selector: an explicit set is the sorted list of its leaves without
\* repetitions, which is a set; a single selector is its own key.
SelectorKey(s) ==
    IF IsSet(s) THEN <<"set", Collected(s).keys>> ELSE LeafKey(s)

HasKey(s) == Collected(s).ok

=============================================================================

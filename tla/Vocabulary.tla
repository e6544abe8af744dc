----------------------------- MODULE Vocabulary -----------------------------
(***************************************************************************)
(* The identity of templates in MetaLogEngine: the per-window cache and    *)
(* index, and the registry that outlives every window.                     *)
(*                                                                         *)
(* A template string has a content-derived id, its hash; a window numbers  *)
(* the ids it meets from 0 in order of first sight.  The hash is not       *)
(* assumed injective.                                                      *)
(***************************************************************************)
EXTENDS Naturals, Sequences

CONSTANTS
  TemplateStr,  \* the template strings
  TemplateId,   \* the content-derived ids
  IdOf          \* insight::template_id_of, external: a function of the string

ASSUME VocabularyAssumption == IdOf \in [TemplateStr -> TemplateId]

VARIABLES
  template_str_cache,  \* string -> content id and internal id, per window
  template_index,      \* content id -> internal id, per window
  templates,           \* the content ids by internal id, per window
  registry             \* content id -> display string, across windows

vocabularyVars == <<template_str_cache, template_index, templates, registry>>

VocabularyTypeOK ==
  /\ DOMAIN template_str_cache \subseteq TemplateStr
  /\ template_str_cache \in
       [DOMAIN template_str_cache -> [content_id : TemplateId, internal_id : Nat]]
  /\ DOMAIN template_index \subseteq TemplateId
  /\ template_index \in [DOMAIN template_index -> Nat]
  /\ templates \in Seq(TemplateId)
  /\ DOMAIN registry \subseteq TemplateId
  /\ registry \in [DOMAIN registry -> TemplateStr]

-----------------------------------------------------------------------------

(* f with the value y for the key x. *)
Extend(f, x, y) == [z \in DOMAIN f \cup {x} |-> IF z = x THEN y ELSE f[z]]

(* Fault: the last string wins. *)
InternLast(id, str) == registry' = Extend(registry, id, str)

(* TemplateRegistry::intern: the first display string of an id stays. *)
Intern(id, str) ==
  IF id \in DOMAIN registry THEN UNCHANGED registry ELSE registry' = Extend(registry, id, str)

(* content_template_id_for asks the admission only for a template that     *)
(* neither the window nor the registry knows, and before anything moves.   *)
Refuses(str, admit) ==
  /\ str \notin DOMAIN template_str_cache
  /\ IdOf[str] \notin DOMAIN template_index
  /\ IdOf[str] \notin DOMAIN registry
  /\ ~admit

InternalIdFor(str) ==
  IF str \in DOMAIN template_str_cache THEN template_str_cache[str].internal_id
  ELSE IF IdOf[str] \in DOMAIN template_index THEN template_index[IdOf[str]]
  ELSE Len(templates)

Cache(str) ==
  template_str_cache' =
    IF str \in DOMAIN template_str_cache THEN template_str_cache
    ELSE Extend(template_str_cache, str,
                [content_id |-> IdOf[str], internal_id |-> InternalIdFor(str)])

(* content_template_id_for when it returns a lookup. *)
LookUp(str) ==
  /\ Cache(str)
  /\ IF str \in DOMAIN template_str_cache \/ IdOf[str] \in DOMAIN template_index
       THEN UNCHANGED <<template_index, templates, registry>>
       ELSE /\ template_index' = Extend(template_index, IdOf[str], Len(templates))
            /\ templates' = Append(templates, IdOf[str])
            /\ Intern(IdOf[str], str)

(* The id of an internal id, as the vector indexed from 0 gives it. *)
TemplateAt(internal_id) == templates[internal_id + 1]

VocabularyInit ==
  /\ template_str_cache = << >>
  /\ template_index = << >>
  /\ templates = << >>
  /\ registry = << >>

(* Faults: a per-window table that is not cleared. *)
ResetKeepingTemplates ==
  /\ template_str_cache' = << >>
  /\ template_index' = << >>
  /\ UNCHANGED <<templates, registry>>
ResetKeepingCache ==
  /\ template_index' = << >>
  /\ templates' = << >>
  /\ UNCHANGED <<template_str_cache, registry>>

(* The vocabulary part of reset_window_state: the registry survives. *)
ResetVocabulary ==
  /\ template_str_cache' = << >>
  /\ template_index' = << >>
  /\ templates' = << >>
  /\ UNCHANGED registry

VocabularyNext ==
  \/ \E str \in TemplateStr, admit \in BOOLEAN : ~Refuses(str, admit) /\ LookUp(str)
  \/ ResetVocabulary

VocabularySpec == VocabularyInit /\ [][VocabularyNext]_vocabularyVars

-----------------------------------------------------------------------------

(* The three per-window tables describe one bijection between the ids met  *)
(* in the window and 0, 1, 2, ... in order of first sight, so an internal  *)
(* id stored in a ring, a span node or an edge always renders to the id it *)
(* stood for when it was stored.                                           *)
IndexIsABijection ==
  /\ DOMAIN template_index = {templates[i] : i \in 1..Len(templates)}
  /\ \A i \in 1..Len(templates) : template_index[templates[i]] = i - 1

(* A cache hit answers what the hash and the index would have answered. *)
CacheIsCoherent ==
  \A str \in DOMAIN template_str_cache :
    LET entry == template_str_cache[str] IN
    /\ entry.content_id = IdOf[str]
    /\ entry.content_id \in DOMAIN template_index
    /\ entry.internal_id = template_index[entry.content_id]

(* Every id the open window can put in a document resolves in the registry,*)
(* to a string that really has that id.                                    *)
WindowIdsResolve ==
  /\ DOMAIN template_index \subseteq DOMAIN registry
  /\ \A id \in DOMAIN registry : IdOf[registry[id]] = id

(* The registry accumulates: an id named by an old document keeps resolving*)
(* to the same string, whatever is opened, closed or discarded later.      *)
RegistryOnlyGrows ==
  [][\A id \in DOMAIN registry : id \in DOMAIN registry' /\ registry'[id] = registry[id]]_registry

=============================================================================

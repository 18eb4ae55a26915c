------------------------------- MODULE Edits -------------------------------
(***************************************************************************)
(* How the user's edits reach the items of an open vault: adding an item   *)
(* under the same-site rule, folding a duplicate in, and the facade's      *)
(* update, which is one write for the fields and one for every element of  *)
(* the groups, tags and origins that changes.                              *)
(*                                                                         *)
(* Source: misty facade.rs (do_add, do_update, build_edit, string_diff),   *)
(* misty-vault vault/write.rs, vault/mod.rs, edit.rs, text.rs. A label is  *)
(* a name and the form it is written in; form 0 is the folded one. A set   *)
(* field keeps the elements that were removed (stored); the facade is one  *)
(* task, so that nothing comes between the writes of an update but a       *)
(* failure of the storage.                                                 *)
(***************************************************************************)
EXTENDS Integers, Sequences, FiniteSets, SequencesExt

CONSTANTS
  NoLabel,          \* a field that is not set
  EntryIds, GroupIds,   \* ids that may be drawn
  NewItems,         \* what add may be given
  EditInputs,       \* what update may be given
  MaxSetEntries,    \* MAX_SET_ENTRIES
  MaxCommands,      \* bounds of the model: commands, and writes of one command
  MaxWritesOfOne

ASSUME EditAssumption == {MaxSetEntries, MaxCommands, MaxWritesOfOne} \subseteq Nat

\* What the types of NewItem and EditInput say: lists are lists, and only a ClearableField is cleared.
ASSUME InputAssumption ==
  /\ \A new \in NewItems : new.tags \in Seq(ToSet(new.tags))
  /\ \A edit \in EditInputs :
       /\ edit.clear \subseteq {"nickname", "note"}
       /\ \A field \in {"groups", "tags", "origins"} \cap DOMAIN edit : edit[field] \in Seq(ToSet(edit[field]))

VARIABLES
  entries,          \* Vault::items: id -> item
  groups,           \* Vault::groups, deleted ones included
  commands,         \* how many there were
  lastUpdate,       \* the last update: what it found, was asked and came to, or NoLabel
  blurred           \* ghost: items that came back from the trash or a deletion, or took a duplicate in

editVars == <<entries, groups, commands, lastUpdate, blurred>>

-----------------------------------------------------------------------------
(***************************************************************************)
(* Labels.                                                                 *)
(***************************************************************************)
Label(name, form) == [name |-> name, form |-> form]
\* text::fold, and how an origin is stored.
FoldLabel(label) == IF label = NoLabel THEN NoLabel ELSE [label EXCEPT !.form = 0]
\* check_required_label; a note may be empty.
LabelOk(label) == IF label = NoLabel THEN TRUE ELSE label.name \notin {"", "forbidden"}

\* An OR-set of one device: what is in it, and every element it keeps an entry for.
EmptySet == [members |-> {}, stored |-> {}]
SetAdd(set, element) == [members |-> set.members \cup {element}, stored |-> set.stored \cup {element}]
SetAddAll(set, elements) ==
  [members |-> set.members \cup ToSet(elements), stored |-> set.stored \cup ToSet(elements)]
SetRemove(set, element) == [set EXCEPT !.members = @ \ {element}]
\* check_room.
HasRoom(set, element) == element \in set.members \/ Cardinality(set.stored) < MaxSetEntries

-----------------------------------------------------------------------------
(***************************************************************************)
(* The same-site rule.                                                     *)
(***************************************************************************)
IsLive(item) == ~item.trashed /\ ~item.deleted
SameSite(a, b) == FoldLabel(a.issuer) = FoldLabel(b.issuer) /\ FoldLabel(a.account) = FoldLabel(b.account)
Cluster(item) == {id \in DOMAIN entries : IsLive(entries[id]) /\ SameSite(entries[id], item)}
SameNickname(a, b) == FoldLabel(a.nickname) = FoldLabel(b.nickname)
\* check_same_site: the secret first, then the nickname.
SameSiteError(new) ==
  IF \E id \in Cluster(new) : entries[id].secret = new.secret THEN "DuplicateAccount"
  ELSE IF \E id \in Cluster(new) : SameNickname(entries[id], new) THEN "AmbiguousAccount" ELSE "Ok"
\* Mutant of Ambiguous: nicknames are compared as they are written.
AmbiguousAsWritten(id, candidate) == \E other \in Cluster(candidate) \ {id} : entries[other].nickname = candidate.nickname
\* The check of update, on the item as it would be.
Ambiguous(id, candidate) == \E other \in Cluster(candidate) \ {id} : SameNickname(entries[other], candidate)

-----------------------------------------------------------------------------
(***************************************************************************)
(* The fields of an update.                                                *)
(***************************************************************************)
Given(edit, field, old) == IF field \in DOMAIN edit THEN edit[field] ELSE old
\* build_edit: a field that is named in clear is reset, whatever else is given for it.
Nullable(edit, field, old) == IF field \in edit.clear THEN NoLabel ELSE Given(edit, field, old)
\* Edit::apply: every value is checked before the first is set.
ApplyError(edit) ==
  IF \/ \E field \in {"issuer", "account", "nickname"} \cap DOMAIN edit : field \notin edit.clear /\ ~LabelOk(edit[field])
     \/ "note" \in DOMAIN edit \ edit.clear /\ edit.note.name = "forbidden"
  THEN "InvalidField" ELSE "Ok"
\* A field that is written revives a deleted item; an edit of no field does not.
Writes(edit) == edit.clear # {} \/ {"issuer", "account", "nickname", "note"} \cap DOMAIN edit # {}
Applied(item, edit) ==
  [item EXCEPT !.issuer = Given(edit, "issuer", @), !.account = Given(edit, "account", @),
               !.nickname = Nullable(edit, "nickname", @), !.note = Nullable(edit, "note", @),
               !.deleted = @ /\ ~Writes(edit)]

\* Mutant of Diff: everything is removed, then the new elements are added.
DiffAll(field, current, desired) ==
  [i \in 1..Cardinality(current) |-> [field |-> field, op |-> "remove", element |-> SetToSeq(current)[i]]]
    \o [i \in DOMAIN desired |-> [field |-> field, op |-> "add", element |-> desired[i]]]
\* string_diff: what is missing is added, then what is not wanted is removed. The elements are
\* compared as they are written.
Missing(desired, current) ==
  LET upTo[i \in 0..Len(desired)] ==
        IF i = 0 THEN <<>>
        ELSE IF desired[i] \in current THEN upTo[i - 1] ELSE Append(upTo[i - 1], desired[i])
  IN upTo[Len(desired)]
Diff(field, current, desired) ==
  LET added == Missing(desired, current)
      removed == SetToSeq(current \ ToSet(desired)) IN
  [i \in DOMAIN added |-> [field |-> field, op |-> "add", element |-> added[i]]]
    \o [i \in DOMAIN removed |-> [field |-> field, op |-> "remove", element |-> removed[i]]]
\* The writes that follow the fields, in the order of do_update.
DiffsOf(item, edit) ==
  LET of(field) == IF field \in DOMAIN edit THEN Diff(field, item[field].members, edit[field]) ELSE <<>>
  IN of("groups") \o of("tags") \o of("origins")

\* add_to_group, remove_from_group, add_tag, remove_tag, add_origin, remove_origin.
Element(step) == IF step.field = "origins" THEN FoldLabel(step.element) ELSE step.element
StepError(item, step) ==
  IF step.op = "remove" THEN "Ok"
  ELSE IF step.field = "groups" /\ step.element \notin groups THEN "NoSuchGroup"
  ELSE IF step.field # "groups" /\ ~LabelOk(Element(step)) THEN "InvalidField"
  ELSE IF ~HasRoom(item[step.field], Element(step)) THEN "TooManyElements" ELSE "Ok"
Stepped(item, step) ==
  LET op(set) == IF step.op = "add" THEN SetAdd(set, Element(step)) ELSE SetRemove(set, Element(step))
  IN [item EXCEPT ![step.field] = op(@), !.deleted = FALSE]

\* The first write of do_update: the fields, checked on the item as it would be. A write that is
\* lost is one the storage failed on.
FieldsError(id, edit, lost) ==
  IF ApplyError(edit) # "Ok" THEN ApplyError(edit)
  ELSE IF Ambiguous(id, Applied(entries[id], edit)) THEN "AmbiguousAccount"
  ELSE IF lost THEN "Storage" ELSE "Ok"
\* One of the writes that follow; none does after an error.
NextWrite(before, step, lost) ==
  LET failure == IF StepError(before.item, step) # "Ok" THEN StepError(before.item, step)
                 ELSE IF lost THEN "Storage" ELSE "Ok" IN
  IF before.error # "Ok" THEN before
  ELSE IF failure # "Ok" THEN [before EXCEPT !.error = failure]
  ELSE [item |-> Stepped(before.item, step), error |-> "Ok"]
\* do_update: it stops at the first error and keeps what it wrote. The write number fails is lost;
\* 0 is none.
Updated(id, edit, fails) ==
  LET fields == Applied(entries[id], edit)
      error == FieldsError(id, edit, fails = 1)
      steps == DiffsOf(fields, edit)
      after[n \in 0..Len(steps)] ==
        IF n = 0 THEN [item |-> IF error = "Ok" THEN fields ELSE entries[id], error |-> error]
        ELSE NextWrite(after[n - 1], steps[n], fails = n + 1)
  IN after[Len(steps)]

\* NewItem::validate.
Validates(new) ==
  /\ \A label \in {new.issuer, new.account, new.nickname} \cup ToSet(new.tags) : LabelOk(label)
  /\ Len(new.tags) <= MaxSetEntries

-----------------------------------------------------------------------------
Command == commands < MaxCommands /\ commands' = commands + 1
Commit(id, item) == entries' = [i \in DOMAIN entries \cup {id} |-> IF i = id THEN item ELSE entries[i]]

EditInit ==
  /\ entries = [i \in {} |-> 0] /\ groups = {} /\ commands = 0 /\ lastUpdate = NoLabel /\ blurred = {}

\* add.
AddEntry(new) ==
  LET id == CHOOSE i \in EntryIds \ DOMAIN entries : TRUE IN
  /\ Command /\ EntryIds \ DOMAIN entries # {}
  /\ Validates(new) /\ SameSiteError(new) = "Ok"
  /\ Commit(id, [issuer |-> new.issuer, account |-> new.account, nickname |-> new.nickname, note |-> NoLabel,
                 secret |-> new.secret, tags |-> SetAddAll(EmptySet, new.tags), origins |-> EmptySet, groups |-> EmptySet,
                 trashed |-> FALSE, deleted |-> FALSE])
  /\ lastUpdate' = NoLabel /\ UNCHANGED <<groups, blurred>>

\* merge_duplicate: only what the duplicate sets is applied, and only to its own secret; the room
\* in the sets is not looked at.
MergeDuplicate(id, new) ==
  /\ Command /\ entries[id].secret = new.secret
  /\ Validates(new)
  /\ Commit(id, [entries[id] EXCEPT !.nickname = IF new.nickname = NoLabel THEN @ ELSE new.nickname,
                                    !.tags = SetAddAll(@, new.tags),
                                    !.deleted = @ /\ new.nickname = NoLabel /\ new.tags = <<>>])
  /\ blurred' = blurred \cup {id} /\ lastUpdate' = NoLabel /\ UNCHANGED groups

UpdateEntry(id, edit, fails) ==
  LET r == Updated(id, edit, fails) IN
  /\ Command
  /\ Commit(id, r.item)
  /\ lastUpdate' = [id |-> id, before |-> entries[id], edit |-> edit, error |-> r.error]
  /\ blurred' = IF entries[id].deleted /\ ~r.item.deleted THEN blurred \cup {id} ELSE blurred
  /\ UNCHANGED groups

\* trash_item, delete_item, restore_item.
TrashEntry(id) ==
  /\ Command /\ Commit(id, [entries[id] EXCEPT !.trashed = TRUE, !.deleted = FALSE])
  /\ lastUpdate' = NoLabel /\ UNCHANGED <<groups, blurred>>
DeleteEntry(id) ==
  /\ Command /\ Commit(id, [entries[id] EXCEPT !.deleted = TRUE])
  /\ lastUpdate' = NoLabel /\ UNCHANGED <<groups, blurred>>
RestoreEntry(id) ==
  /\ Command /\ Commit(id, [entries[id] EXCEPT !.trashed = FALSE, !.deleted = FALSE])
  /\ blurred' = IF IsLive(entries[id]) THEN blurred ELSE blurred \cup {id}
  /\ lastUpdate' = NoLabel /\ UNCHANGED groups

\* add_group; delete_group leaves the group and its members where they are.
AddGroup(g) ==
  /\ Command /\ g \notin groups /\ groups' = groups \cup {g}
  /\ lastUpdate' = NoLabel /\ UNCHANGED <<entries, blurred>>

EditNext ==
  \/ \E new \in NewItems : AddEntry(new)
  \/ \E id \in DOMAIN entries, new \in NewItems : MergeDuplicate(id, new)
  \/ \E id \in DOMAIN entries, edit \in EditInputs, fails \in 0..MaxWritesOfOne : UpdateEntry(id, edit, fails)
  \/ \E id \in DOMAIN entries : TrashEntry(id) \/ DeleteEntry(id) \/ RestoreEntry(id)
  \/ \E g \in GroupIds : AddGroup(g)
EditSpec == EditInit /\ [][EditNext]_editVars

-----------------------------------------------------------------------------
\* Labels are usable, and no set keeps more entries than MAX_SET_ENTRIES, but for an item that
\* took over a duplicate's.
EditTypeOK ==
  \A id \in DOMAIN entries :
    /\ LabelOk(entries[id].issuer) /\ LabelOk(entries[id].account)
    /\ \A field \in {"groups", "tags", "origins"} :
         /\ entries[id][field].members \subseteq entries[id][field].stored
         /\ id \notin blurred => Cardinality(entries[id][field].stored) <= MaxSetEntries

\* Two live items of one site and account have nicknames a human can tell apart, whatever was
\* added, renamed or failed half way; only an item that came back from the trash or a deletion, or
\* took over a duplicate's nickname, is not checked (restore_item, merge_duplicate).
NamesTellApart ==
  \A a \in DOMAIN entries \ blurred : \A b \in Cluster(entries[a]) \ (blurred \cup {a}) :
    IsLive(entries[a]) => ~SameNickname(entries[a], entries[b])

\* An update that fails half way leaves no field or element that was neither there nor asked for,
\* and takes none away that was there and is asked for; one that is refused for its fields leaves
\* everything as it was ("a rejected edit leaves the item exactly as it was", edit.rs).
FailedEditIsPartial ==
  lastUpdate # NoLabel =>
    LET now == entries[lastUpdate.id] IN
    /\ (ApplyError(lastUpdate.edit) # "Ok" \/ lastUpdate.error = "AmbiguousAccount") => now = lastUpdate.before
    /\ \A field \in {"tags", "groups"} \cap DOMAIN lastUpdate.edit :
         LET old == lastUpdate.before[field].members
             asked == ToSet(lastUpdate.edit[field]) IN
         old \cap asked \subseteq now[field].members /\ now[field].members \subseteq old \cup asked

\* An update that succeeds leaves the sets that were asked for ("set-replacements applied as
\* diffs", do_update), and a field that was to be cleared is clear ("wins over a set", build_edit).
\* Origins are stored folded and compared as written, so this is not promised to a caller that
\* gives an origin the item has in a form that is not the folded one: it is added, then removed.
EditDoesWhatIsAsked ==
  (lastUpdate # NoLabel /\ lastUpdate.error = "Ok") =>
    LET now == entries[lastUpdate.id]
        edit == lastUpdate.edit
        had == lastUpdate.before.origins.members IN
    /\ \A field \in {"tags", "groups"} \cap DOMAIN edit : now[field].members = ToSet(edit[field])
    /\ "origins" \in DOMAIN edit =>
         \/ now.origins.members = {FoldLabel(o) : o \in ToSet(edit.origins)}
         \/ \E o \in ToSet(edit.origins) : o # FoldLabel(o) /\ FoldLabel(o) \in had
    /\ \A field \in {"nickname", "note"} \cap edit.clear : now[field] = NoLabel

\* The inductive invariant: an item has its fields, its sets keep what is in them, its origins are
\* stored folded, and the limit holds where it is promised.
ItemFields == {"issuer", "account", "nickname", "note", "secret", "tags", "origins", "groups", "trashed", "deleted"}
SetFields == {"groups", "tags", "origins"}
SetOk(set) ==
  /\ set = [members |-> set.members, stored |-> set.stored]
  /\ IsFiniteSet(set.stored) /\ set.members \subseteq set.stored
ItemOk(item) ==
  /\ DOMAIN item = ItemFields /\ item.trashed \in BOOLEAN /\ item.deleted \in BOOLEAN
  /\ LabelOk(item.issuer) /\ LabelOk(item.account)
  /\ \A field \in SetFields : SetOk(item[field])
  /\ \A origin \in item.origins.members : FoldLabel(origin) = origin
Bounded(item) == \A field \in SetFields : Cardinality(item[field].stored) <= MaxSetEntries
EditInv ==
  /\ \A id \in DOMAIN entries : ItemOk(entries[id]) /\ (id \notin blurred => Bounded(entries[id]))
  /\ NamesTellApart

\* Whatever sequence of commands ran, the items fit their limits and can be told apart
\* (check_room, AmbiguousAccount).
EntriesInOrder == EditTypeOK /\ NamesTellApart

\* An update does what was asked for, or a part of that and nothing else (do_update).
UpdateDoesItsPart == FailedEditIsPartial /\ EditDoesWhatIsAsked
=============================================================================

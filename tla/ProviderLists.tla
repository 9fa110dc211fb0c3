---------------------------- MODULE ProviderLists ----------------------------
(***************************************************************************)
(* The lists of models and providers the desktop client keeps its entries  *)
(* in beside the user's: ZCode's provider_config.json and WorkBuddy's      *)
(* models.json.  _merge_zcode_payload and _workbuddy_merged_payload of     *)
(* src/clients/minking-desktop/minking_desktop/harness.py.                 *)
(*                                                                         *)
(* A payload is what these functions read of it.  The user adds entries of *)
(* his own, and the client merges one choice of models after another.      *)
(***************************************************************************)
EXTENDS Integers, Sequences, FiniteSets, SequencesExt, Collections

CONSTANTS Slugs,     \* models the gateway offers
          Names,     \* names the user gives to providers and models
          None,
          MaxItems   \* bound: entries the user adds

\* Entries the client wrote in earlier versions: providerId "minkingapi",
\* model "minking-default".
Legacy == "minking"

ListNames ==
  /\ IsFiniteSet(Slugs) /\ Slugs # {} /\ Slugs \cap Names = {}
  /\ None \notin Slugs \cup Names \cup {Legacy} /\ Legacy \notin Slugs \cup Names

VARIABLES
  rules,      \* zcode: providerRules, with the address each one calls
  modelRules, \* zcode: the provider of each providerModelRule
  order,      \* zcode: providerOrder
  default,    \* zcode: the provider of defaultModelSelection
  models,     \* workbuddy: models, with the address each one calls
  available,  \* workbuddy: availableModels, <<>> when there is none
  merged      \* the choice of models merged last, <<>> before the first

zcode == <<rules, modelRules, order, default>>
workbuddy == <<models, available>>
vars == <<zcode, workbuddy, merged>>

Ids == Slugs \cup Names \cup {Legacy}
Entry == [id : Ids, url : {"ours", "theirs"}]
OneToOne(s) == \A x, y \in DOMAIN s : s[x] = s[y] => x = y
Selections == {s \in UNION {[1..n -> Slugs] : n \in 1..Cardinality(Slugs)} : OneToOne(s)}

TypeOK ==
  /\ rules \in Seq(Entry) /\ models \in Seq(Entry)
  /\ modelRules \in Seq(Ids) /\ order \in Seq(Ids) /\ available \in Seq(Ids)
  /\ default \in Ids \cup {None}
  /\ merged \in Selections \cup {<<>>}
  /\ OneToOne(order)

Init ==
  /\ rules = <<>> /\ modelRules = <<>> /\ order = <<>> /\ default = None
  /\ models = <<>> /\ available = <<>>
  /\ merged = <<>>

-----------------------------------------------------------------------------
Ids_(s) == {s[x].id : x \in DOMAIN s}
Entries(slugs) == [x \in DOMAIN slugs |-> [id |-> slugs[x], url |-> "ours"]]

\* _zcode_ours.
ZcodeOurs(e) == e.id = Legacy \/ e.url = "ours"

\* What goes: the entries that are ours, and those of a chosen model's name.
Gone(slugs) == {rules[x].id : x \in {y \in DOMAIN rules : ZcodeOurs(rules[y])}} \cup {Legacy} \cup ToSet(slugs)
KeptRules(slugs) == Only(rules, {e \in Entry : ~ZcodeOurs(e) /\ e.id \notin ToSet(slugs)})
KeptNames(s, slugs) == Only(s, Ids \ Gone(slugs))
DefaultFirst(slugs) == slugs[1]
Default(slugs) == IF default \in ToSet(slugs) \/ default \notin Gone(slugs) \cup {None} THEN default ELSE slugs[1]

\* _merge_zcode_payload.
MergeZcode(slugs) ==
  /\ rules' = KeptRules(slugs) \o Entries(slugs)
  /\ modelRules' = KeptNames(modelRules, slugs) \o slugs
  /\ order' = KeptNames(order, slugs) \o slugs
  /\ default' = Default(slugs)

\* _workbuddy_ours.
BuddyOurs(e, slugs) == e.id = Legacy \/ e.id \in ToSet(slugs) \/ e.url = "ours"
Injected(slugs) == {models[x].id : x \in {y \in DOMAIN models : BuddyOurs(models[y], slugs)}}
Foreign(slugs) == Only(available, Ids \ (ToSet(slugs) \cup Injected(slugs) \cup {Legacy}))
Available(slugs) == IF Foreign(slugs) = <<>> THEN <<>> ELSE Foreign(slugs) \o slugs

\* _workbuddy_merged_payload.
MergeBuddy(slugs) ==
  /\ models' = Only(models, {e \in Entry : ~BuddyOurs(e, slugs)}) \o Entries(slugs)
  /\ available' = Available(slugs)

Merge(slugs) == MergeZcode(slugs) /\ MergeBuddy(slugs) /\ merged' = slugs

-----------------------------------------------------------------------------
\* The user adds a provider of his own, in each list that names it.
AddProvider(n, url) ==
  /\ Len(rules) < MaxItems /\ n \notin Ids_(rules)
  /\ rules' = Append(rules, [id |-> n, url |-> url])
  /\ modelRules' = Append(modelRules, n)
  /\ order' = Append(order, n)
  /\ default' \in {default, n}
  /\ merged' = <<>>
  /\ UNCHANGED workbuddy

\* He adds a model, and lists models by name or not.
AddModel(n, url, listed) ==
  /\ Len(models) < MaxItems /\ n \notin Ids_(models)
  /\ models' = Append(models, [id |-> n, url |-> url])
  /\ available' = IF listed THEN Append(available, n) ELSE available
  /\ merged' = <<>>
  /\ UNCHANGED zcode

Next ==
  \/ \E slugs \in Selections : Merge(slugs)
  \/ \E n \in Names \cup {Legacy}, url \in {"ours", "theirs"} :
       AddProvider(n, url) \/ \E listed \in BOOLEAN : AddModel(n, url, listed)

Spec == Init /\ [][Next]_vars

-----------------------------------------------------------------------------
(* What must hold.                                                         *)

\* After any series of merges the lists name each other's entries: no order,
\* model rule or default refers to a provider that a merge has removed
\* (_merge_zcode_payload).
NoDangling ==
  /\ ToSet(order) \cup ToSet(modelRules) \subseteq Ids_(rules)
  /\ default \in Ids_(rules) \cup {None}

\* After a merge the entries that call the gateway are exactly the chosen
\* ones, once each: models chosen earlier and not now are gone everywhere.
ExactlyChosen ==
  merged # <<>> =>
    LET ours == {e \in Entry : e.url = "ours"}
    IN  /\ Only(rules, ours) = Entries(merged) /\ Only(models, ours) = Entries(merged)
        /\ available # <<>> => ToSet(available) \cap (Slugs \cup {Legacy}) = ToSet(merged)

\* A merge never takes an entry of the user's away, nor hides one of his
\* models, nor his default provider.
Visible(id, list) == list = <<>> \/ id \in ToSet(list)
UsersStay ==
  [][merged' # <<>> =>
       /\ \A x \in DOMAIN rules : ~ZcodeOurs(rules[x]) /\ rules[x].id \in Names =>
            rules[x] \in ToSet(rules') /\ (default = rules[x].id => default' = default)
       /\ \A x \in DOMAIN models : models[x].url = "theirs" /\ models[x].id \in Names =>
            models[x] \in ToSet(models') /\ (Visible(models[x].id, available) => Visible(models[x].id, available'))
    ]_vars
=============================================================================

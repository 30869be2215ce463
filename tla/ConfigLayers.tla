---------------------------- MODULE ConfigLayers ----------------------------
(***************************************************************************)
(* From the option editor to what fbc is run with: the controls the editor *)
(* shows for a preset, what a save keeps of what is posted, the preview,   *)
(* the config.yaml of a conversion and the one of a retry.                 *)
(*                                                                         *)
(* A value is its YAML type and its text.                                  *)
(***************************************************************************)
EXTENDS ConfigFlat

CONSTANTS
    Schema,        \* the paths options.json describes
    Kind,          \* their kinds: "bool", "int", "area" (strings whose key ends in
                   \* _template: a textarea) or "text" (enums too)
    Default,       \* their defaults, as text: what fbc does when told nothing
    Legacy,        \* leaves of presets older than the schema
    Texts,         \* what a user may put into the control of each kind ("old":
                   \* of a row the schema does not know)
    Atoi,          \* texts that are integers, to the canonical text
    Crlf,          \* texts with line breaks, to the same with CRLF for each
    Held,          \* texts a textarea does not hold as they are written into the
                   \* page: CRLF is read as LF, and a first line break is skipped
    AppDefaults,   \* applicationDefaults, as leaves
    Flip,          \* the one leaf a retry sets
    Blank,         \* the empty text
    Absent         \* no page, no preview, no conversion

\* No version of fbc has a document that is not a section.
ASSUME DocumentAssumption ==
    \A p \in Schema \cup {l.path : l \in Legacy} \cup {Flip.path} : p # <<"document">>
ASSUME NumbersAssumption ==
    \A t \in DOMAIN Atoi : Atoi[t] \in DOMAIN Atoi /\ Atoi[Atoi[t]] = Atoi[t]
ASSUME DefaultsAssumption ==
    \A k \in Schema :
        /\ Kind[k] = "bool" => Default[k] \in {"true", "false"}
        /\ Kind[k] = "int" /\ Default[k] \in DOMAIN Atoi => Atoi[Default[k]] = Default[k]
By(map, text) == IF text \in DOMAIN map THEN map[text] ELSE text
ASSUME LineBreaksAssumption ==
    \A t \in DOMAIN Crlf \cup DOMAIN Held : By(Held, By(Crlf, t)) = By(Held, t)

VARIABLES
    overrides,   \* the preset's file, as leaves
    form,        \* the open editor page: the text in each control
    pane,        \* its preview: the configuration it is called effective
    posted,      \* the controls of the page that was saved last
    cfg,         \* config.yaml of the last conversion since then
    retry        \* retry-config.yaml of that conversion's retry

vars == <<overrides, form, pane, posted, cfg, retry>>

Val(as, text) == [as |-> as, text |-> text]

\* rowFor, appendSyntheticRows: a row for each option, and for each override
\* the schema does not know.
Rows(over) == Schema \cup {l.path : l \in over}
Has(over, k) == \E l \in over : l.path = k

\* Mutant: the controls start from the defaults.
ShowsDefaults(over, k) == IF k \in Schema THEN Default[k] ELSE Blank
Shown(over, k) ==
    IF Has(over, k) THEN (CHOOSE l \in over : l.path = k).val.text ELSE Default[k]

\* Mutant: the first value posted counts, and a box is never checked.
FirstValue(vals) == vals[1]
LastValue(vals) == vals[Len(vals)]

\* What the browser makes of a text in the page, and, when the form is submitted,
\* of the text in a control; htmx posts the texts as they are.
IsArea(k) == k \in Schema /\ Kind[k] = "area"
InControl(k, text) == IF IsArea(k) THEN By(Held, text) ELSE text
Submitted(k, text) == IF IsArea(k) THEN By(Crlf, text) ELSE text
Native(f) == [k \in DOMAIN f |-> Submitted(k, f[k])]

\* A box posts a hidden "false", and "true" when it is checked.
Posted(k, text) ==
    IF k \in Schema /\ Kind[k] = "bool"
    THEN IF text = "true" THEN <<"false", "true">> ELSE <<"false">>
    ELSE <<text>>

\* parseValue: nothing for a number that is none.
Parsed(k, text) ==
    CASE Kind[k] = "int" -> {Val("int", Atoi[t]) : t \in {text} \cap DOMAIN Atoi}
      [] Kind[k] = "bool" -> {Val("bool", IF text = "true" THEN "true" ELSE "false")}
      [] OTHER -> {Val("text", text)}

\* Presets an older version has written: an override may by now be the default.
Legal(k) ==
    {Leaf(k, v) : v \in UNION {Parsed(k, Submitted(k, t)) : t \in Texts[Kind[k]]}}
Init ==
    /\ overrides \in {old \cup mine : old \in SUBSET Legacy,
                                      mine \in {{}} \cup {{l} : l \in UNION {Legal(k) : k \in Schema}}}
    /\ form = Absent /\ pane = Absent /\ posted = Absent
    /\ cfg = Absent /\ retry = Absent

\* Mutant: a value equal to the default is kept.
KeepDefault(k, v) == FALSE
IsDefault(k, v) == v.text = Default[k]

\* collectOverrides.
Collect(f) ==
    (UNION {{Leaf(k, v) : v \in {w \in Parsed(k, LastValue(Posted(k, f[k]))) : ~IsDefault(k, w)}} :
              k \in Schema}) \cup
    {Leaf(k, Val("text", f[k])) : k \in {p \in DOMAIN f \ Schema : Len(p) > 1 /\ f[p] # Blank}}

\* Mutant: the application's defaults are laid over the preset.
DefaultsWin(over) == Overlay(over, AppDefaults)
Layered(over) == Overlay(AppDefaults, over)

\* BuildConfig.  No caller sets its form options.
Build(over) == Opened(Layered(over), "document")

OpenEditor ==
    /\ form' = [k \in Rows(overrides) |-> InControl(k, Shown(overrides, k))]
    /\ pane' = Build(overrides)
    /\ UNCHANGED <<overrides, posted, cfg, retry>>

TextsFor(k) == IF k \in Schema THEN Texts[Kind[k]] ELSE Texts["old"]

\* The user changes a control; the preview follows 300 ms later.
Change ==
    /\ form # Absent
    /\ \E k \in DOMAIN form : \E t \in TextsFor(k) : form' = [form EXCEPT ![k] = t]
    /\ UNCHANGED <<overrides, pane, posted, cfg, retry>>

Refresh ==
    /\ form # Absent
    /\ pane' = Build(Collect(form))
    /\ UNCHANGED <<overrides, form, posted, cfg, retry>>

\* handlePresetSave, and the redirect to the editor.
Save ==
    /\ form # Absent
    /\ overrides' = Collect(Native(form))
    /\ posted' = form
    /\ form' = Absent /\ pane' = Absent
    /\ cfg' = Absent /\ retry' = Absent

\* buildConfigForPreset.
Convert ==
    /\ cfg' = Build(overrides)
    /\ retry' = Absent
    /\ UNCHANGED <<overrides, form, pane, posted>>

\* handleRetry: the preset is not in it.
Retry ==
    /\ cfg # Absent
    /\ retry' = Build({Flip})
    /\ UNCHANGED <<overrides, form, pane, posted, cfg>>

Next ==
    \/ OpenEditor \/ Change \/ Refresh \/ Save
    \/ Convert \/ Retry

Spec == Init /\ [][Next]_vars

-----------------------------------------------------------------------------
Meant(k, text) ==
    IF Parsed(k, text) = {} THEN Default[k] ELSE (CHOOSE v \in Parsed(k, text) : TRUE).text

\* Whatever an older version had stored, a save keeps no override that equals the
\* default of its option, and none of an option whose control was left at its
\* default; save for a template whose default has line breaks, which the submit
\* changes (editor.go:292-320, schema.go:32-59; the design document, lines 112-114,
\* makes no such exception).
SavedIsSparse ==
    posted # Absent =>
        \A l \in overrides : l.path \in Schema =>
            LET k == l.path
                untouched == InControl(k, Default[k])
            IN  /\ l.val.text # Default[k]
                /\ Submitted(k, untouched) = Default[k] => posted[k] # untouched

\* The controls show after a save what they held: no option is lost between the
\* two posts of a box, the parsing, the dropped defaults, the line ends of a
\* template and the rows; but for the first line break of a template.
SaveRoundTrips ==
    posted # Absent =>
        \A k \in Schema : InControl(k, Shown(overrides, k)) = InControl(k, Meant(k, posted[k]))

\* Every override of the preset is in the configuration its conversion runs
\* with, and nothing else is there but application defaults; and the option a retry
\* flips is in the one it runs with (config_yaml.go:42-53, convert_flow.go:451).
OverridesReachFbc ==
    /\ cfg # Absent => overrides \subseteq cfg /\ cfg \subseteq overrides \cup AppDefaults
    /\ retry # Absent => Flip \in retry

\* No template was saved with a first line break, which the next page would lose.
NoBreakIsLost(f) ==
    \A k \in Schema : Submitted(k, InControl(k, f[k])) = Submitted(k, f[k])

\* The effective configuration shown when a saved preset is opened is what a save
\* of the untouched page would convert with: a save keeps what a save has kept, line
\* ends and rows the schema does not know included (editor.go:253-334,
\* effective.go:13-30).
OpenPreviewsSave ==
    [][OpenEditor /\ posted # Absent /\ NoBreakIsLost(posted)
         => pane' = Build(Collect(Native(form')))]_vars

\* What fbc does about an option: what the configuration says, or its default.
Effect(c, k) == Shown(c, k)

\* A conversion does what the editor was told (config_yaml.go:22-25: the
\* baseline sits below the user's choices, "so any of those can override it").
ChoicesTakeEffect ==
    posted # Absent /\ cfg # Absent =>
        \A k \in Schema : Effect(cfg, k) = Meant(k, Submitted(k, posted[k]))
=============================================================================

------------------------- MODULE ExtensionSettings -------------------------
(***************************************************************************)
(* The plan settings an extension declares in its wheel, and the           *)
(* configuration a plan ends with: what the caller gave and the saved plan *)
(* had, the defaults of the settings that show, the answers of a caller    *)
(* who can be asked, without the settings that do not show any more.       *)
(*                                                                         *)
(* A setting is [id, kind, default, choices, when, optional, advanced];    *)
(* "when" maps controlling settings to the values it shows for.  None      *)
(* stands for a value there is none of.                                    *)
(***************************************************************************)
EXTENDS Naturals, Sequences, SequencesExt, TLC

None == "none"
Get(values, id) == IF id \in DOMAIN values THEN values[id] ELSE None
Without(values, id) == [k \in DOMAIN values \ {id} |-> values[k]]

\* parse_settings; what it refuses is treated as no declaration.
Parsed(settings) ==
    /\ \A i, j \in DOMAIN settings : settings[i].id = settings[j].id => i = j
    /\ \A i \in DOMAIN settings :
          LET s == settings[i] IN
          /\ s.kind = "choice" => s.choices # {} /\ s.default \in s.choices
          /\ s.kind = "boolean" => s.default \in {"yes", "no"}
          /\ s.kind = "text" => s.default # None \/ s.optional
          /\ \A k \in DOMAIN s.when : k # s.id /\ s.when[k] # {} /\ \E j \in DOMAIN settings : settings[j].id = k

Visible(setting, values) == \A k \in DOMAIN setting.when : Get(values, k) \in setting.when[k]

SettingDefaults(settings, values) ==
    LET defaults == [id \in {settings[i].id : i \in {j \in DOMAIN settings : settings[j].default # None}} |->
                        (CHOOSE s \in ToSet(settings) : s.id = id).default]
        resolved == values @@ defaults
        kept == {s \in ToSet(settings) : s.id \in DOMAIN resolved /\ Visible(s, resolved)}
    IN values @@ [id \in {s.id : s \in kept} |-> resolved[id]]

\* A setting that shows and was not provided is asked for; no answer takes its default.
Ask(values, setting, provided, answers) ==
    IF setting.advanced \/ setting.id \in provided \/ ~Visible(setting, values) THEN values
    ELSE LET answer == IF setting.id \in DOMAIN answers THEN answers[setting.id] ELSE setting.default
         IN IF answer = None THEN values ELSE setting.id :> answer @@ values
\* An answer that is no choice of its setting ends the command.
Answerable(settings, answers) ==
    \A s \in ToSet(settings) : s.id \in DOMAIN answers /\ s.kind = "choice" => answers[s.id] \in s.choices

Drop(values, setting, explicit) ==
    IF setting.id \notin explicit /\ ~Visible(setting, values) THEN Without(values, setting.id) ELSE values

\* The saved plan's configuration under the explicit one.  The endpoints a saved plan
\* was for do not outlive a change of its output, nor a new choice of endpoints.
Endpoints == "selected_endpoints"
Provided(saved, explicit, reset) ==
    LET moved == "output" \in DOMAIN explicit /\ explicit["output"] # Get(saved, "output")
    IN explicit @@ IF reset \/ moved THEN Without(saved, Endpoints) ELSE saved

\* _plan_locked.
Settled(settings, saved, explicit, interactive, answers) ==
    LET provided == Provided(saved, explicit, FALSE)
        defaulted == SettingDefaults(settings, provided)
        asked == IF interactive
                 THEN FoldLeft(LAMBDA v, s : Ask(v, s, DOMAIN provided, answers), defaulted, settings)
                 ELSE defaulted
    IN FoldLeft(LAMBDA v, s : Drop(v, s, DOMAIN explicit), asked, settings)

-----------------------------------------------------------------------------
\* Each setting shows by settings declared before it.
InOrder(settings) ==
    \A i \in DOMAIN settings : \A k \in DOMAIN settings[i].when :
       \E j \in 1 .. i - 1 : settings[j].id = k

\* No setting shows for want of another, and none that may come to show is not asked for.
Plain(settings) ==
    \A s \in ToSet(settings) : ~s.advanced /\ \A k \in DOMAIN s.when : None \notin s.when[k]

(* What the caller gave stays as given, and a value comes from nowhere but   *)
(* a default or an answer.  If settings are declared after those they        *)
(* depend on, every other setting that is left shows under the configuration *)
(* it is left in; for plain ones, planning again from what was saved changes *)
(* nothing.  Endpoints saved for one output are not taken for another.       *)
SettingsSettle(settings, saved, explicit, interactive, answers) ==
    LET after == Settled(settings, saved, explicit, interactive, answers) IN
    Parsed(settings) /\ Answerable(settings, answers) =>
      /\ \A k \in DOMAIN explicit : Get(after, k) = explicit[k]
      /\ \A s \in ToSet(settings) : s.id \notin DOMAIN saved \cup DOMAIN explicit /\ s.id \in DOMAIN after =>
            after[s.id] \in {s.default, Get(answers, s.id)}
      /\ InOrder(settings) =>
            /\ \A s \in ToSet(settings) :
                  s.id \in DOMAIN after \ DOMAIN explicit => Visible(s, after)
            /\ Plain(settings) => Settled(settings, after, explicit, FALSE, <<>>) = after
      /\ Endpoints \in DOMAIN after => Endpoints \in DOMAIN explicit \/ Get(after, "output") = Get(saved, "output")
=============================================================================

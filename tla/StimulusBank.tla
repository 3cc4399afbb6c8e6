---------------------------- MODULE StimulusBank ----------------------------
(***************************************************************************)
(* How an uploaded stimulus file becomes a stored bank                     *)
(* (researcher_api/services/stimulus_service.py): reading of the lines,    *)
(* the checks and repairs of one row, and the verdict on the file.  Pure   *)
(* operators; RunSetup stores what Verdict accepts.                        *)
(*                                                                         *)
(* A line is Blank, Unreadable (not a JSON object, or a CSV row whose      *)
(* payload or eligible_sets do not parse) or a row: a record of texts, ""  *)
(* standing for a missing or blank text.  row.correct is the text given    *)
(* for model_correct: "true", "false", "" or "other"; row.eligible tells   *)
(* whether eligible_sets is absent or a list of non-empty texts.           *)
(* payload = [object, title, body, legacy, channel, options]: whether it   *)
(* is an object, its texts, how many of the four legacy keys hold a text,  *)
(* and options \in {"absent", "malformed", "empty", "given"} for           *)
(* response_options.                                                       *)
(***************************************************************************)
EXTENDS Naturals, Sequences, FiniteSets

CONSTANTS
    Blank, Unreadable,  \* lines that are not rows
    Labels,             \* [family name -> set of labels], the task-family registry
    BuiltinFamilies     \* families for which the page has default response buttons

ASSUME RegistryAssumption ==
    /\ \A f \in DOMAIN Labels : Labels[f] # {} /\ "" \notin Labels[f]
    /\ "" \notin DOMAIN Labels
    /\ BuiltinFamilies \subseteq DOMAIN Labels

ContentTypes == {"text", "image", "vignette"}
Levels == {"low", "medium", "high"}

\* what a line of a file can be
Lines ==
    {Blank, Unreadable}
    \cup [id : STRING, family : STRING, content : STRING, label : STRING, prediction : STRING,
          correct : {"true", "false", "", "other"}, difficulty : STRING, confidence : STRING,
          eligible : BOOLEAN,
          payload : [object : BOOLEAN, title : STRING, body : STRING, legacy : 0..4,
                     channel : STRING, options : {"absent", "malformed", "empty", "given"}]]

Given(text) == text # ""
When(bad, code) == IF bad THEN {code} ELSE {}

-----------------------------------------------------------------------------
(* One row.                                                                *)

\* payload.body, or the one legacy text that stands for it
Body(payload) ==
    IF Given(payload.body) THEN payload.body
    ELSE IF payload.legacy = 1 THEN "legacy" ELSE ""

Title(payload) ==
    IF Given(payload.title) THEN payload.title
    ELSE IF Given(payload.channel) THEN payload.channel ELSE "Untitled stimulus"

PayloadErrors(payload) ==
    IF ~payload.object THEN {"invalid_payload"}
    ELSE When(~Given(payload.body) /\ payload.legacy > 1, "ambiguous_legacy_payload")
         \cup When(~Given(Body(payload)), "missing_payload_body")

PayloadWarnings(payload) ==
    IF ~payload.object THEN {}
    ELSE When(~Given(payload.body) /\ payload.legacy = 1, "legacy_payload_normalized")
         \cup When(~Given(payload.title), "title_defaulted")

OptionErrors(row) ==
    IF row.family \notin DOMAIN Labels \/ ~row.payload.object THEN {}
    ELSE When(row.payload.options = "absent" /\ row.family \notin BuiltinFamilies,
              "missing_response_options")
         \cup When(row.payload.options \in {"malformed", "empty"}, "invalid_response_options")

\* labels given in full, from which a missing model_correct is derived
BothLabels(row) == Given(row.label) /\ Given(row.prediction)

ModelCorrect(row) ==
    \/ row.correct = "true"
    \/ row.correct = "" /\ BothLabels(row) /\ row.label = row.prediction

LabelErrors(row) ==
    When(\/ row.correct = "other"
         \/ row.correct = "" /\ ~BothLabels(row), "invalid_model_correct")
    \cup When(BothLabels(row) /\ ModelCorrect(row) # (row.prediction = row.label),
              "inconsistent_model_correct")
    \cup IF row.family \notin DOMAIN Labels THEN {"invalid_task_family"}
         ELSE When(Given(row.label) /\ row.label \notin Labels[row.family], "invalid_true_label")
              \cup When(Given(row.prediction) /\ row.prediction \notin Labels[row.family],
                        "invalid_model_prediction")

RowErrors(row) ==
    PayloadErrors(row.payload) \cup OptionErrors(row) \cup LabelErrors(row)
    \cup When("" \in {row.id, row.label, row.prediction}, "missing_required")
    \cup When(row.content \notin ContentTypes, "invalid_content_type")
    \cup When(row.difficulty \notin Levels, "invalid_difficulty_prior")
    \cup When(row.confidence \notin Levels, "invalid_model_confidence")
    \cup When(~row.eligible, "invalid_eligible_sets")

RowWarnings(row) ==
    PayloadWarnings(row.payload)
    \cup When(row.correct = "" /\ BothLabels(row), "derived_model_correct")

\* the row as it is stored
Canonical(row) ==
    [id |-> row.id, family |-> row.family, content |-> row.content,
     label |-> row.label, prediction |-> row.prediction, correct |-> ModelCorrect(row),
     difficulty |-> row.difficulty, confidence |-> row.confidence,
     title |-> Title(row.payload), body |-> Body(row.payload),
     options |-> row.payload.options = "given"]

-----------------------------------------------------------------------------
(* The file.                                                               *)

\* the rows by their lines; JSON lines and CSV agree: blank lines are skipped
Rows(file) == [l \in {k \in DOMAIN file : file[k] # Blank} |-> file[l]]

\* upload raises before any check: an unreadable line, or nothing to read
Readable(file) == DOMAIN Rows(file) # {} /\ \A i \in DOMAIN file : file[i] # Unreadable

\* an id seen in an earlier good row
Repeated(rows, i) ==
    \E j \in DOMAIN rows : j < i /\ RowErrors(rows[j]) = {} /\ rows[j].id = rows[i].id

Accepted(rows) ==
    {i \in DOMAIN rows : RowErrors(rows[i]) = {} /\ ~Repeated(rows, i)}

\* A mutant: each row is judged alone.
FileErrorsByRow(rows) == UNION {RowErrors(rows[i]) : i \in DOMAIN rows}

Families(rows) == {rows[i].family : i \in Accepted(rows)}

FileErrors(rows) ==
    (UNION {RowErrors(rows[i]) : i \in DOMAIN rows})
    \cup When(\E i \in DOMAIN rows : RowErrors(rows[i]) = {} /\ Repeated(rows, i),
              "duplicate_stimulus_id")
    \cup When(Cardinality(Families(rows)) > 1, "mixed_task_family")

Verdict(rows) ==
    IF FileErrors(rows) # {} THEN "invalid"
    ELSE IF \E i \in DOMAIN rows : RowWarnings(rows[i]) # {} THEN "warning_only" ELSE "valid"

Bank(rows) ==
    [family |-> CHOOSE f \in Families(rows) : TRUE, status |-> Verdict(rows),
     items |-> [i \in Accepted(rows) |-> Canonical(rows[i])]]

RunCompatible == {"valid", "warning_only"}

\* StimulusItem.validate, run whenever an item is read back
ItemValid(item) ==
    /\ Given(item.id) /\ Given(item.family) /\ Given(item.label) /\ Given(item.prediction)
    /\ item.content \in ContentTypes
    /\ item.difficulty \in Levels /\ item.confidence \in Levels
=============================================================================

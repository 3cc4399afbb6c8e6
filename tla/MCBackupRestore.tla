--------------------------- MODULE MCBackupRestore ---------------------------
EXTENDS BackupRestore

MCLabels == [scam |-> {"scam", "not_scam"}, toxic |-> {"toxic", "fine"}]
MCBuiltin == {"scam"}

Text == [object |-> TRUE, title |-> "t", body |-> "b", legacy |-> 0, channel |-> "", options |-> "absent"]

Row(id, family, label, prediction) ==
    [id |-> id, family |-> family, content |-> "text", label |-> label, prediction |-> prediction,
     correct |-> "", difficulty |-> "low", confidence |-> "high", eligible |-> TRUE,
     payload |-> [Text EXCEPT !.options = IF family \in MCBuiltin THEN "absent" ELSE "given"]]

Right(id) == Row(id, "scam", "scam", "scam")
Wrong(id) == Row(id, "scam", "scam", "not_scam")
Other(id) == Row(id, "toxic", "fine", "fine")

\* banks of one and two items with an id in common, one of another family,
\* and one file for each way to be refused
MCFiles ==
    { <<Right("a"), Blank, [Wrong("b") EXCEPT !.correct = "false"]>>, <<Right("b")>>,
      <<[Right("c") EXCEPT !.payload.body = "", !.payload.legacy = 1]>>, <<Other("d")>>,
      <<Right("a"), Wrong("a")>>, <<Right("a"), Other("d")>>, <<Right("a"), Unreadable>>,
      <<[Wrong("a") EXCEPT !.correct = "true"]>>, <<[Right("a") EXCEPT !.correct = "other"]>>,
      <<[Other("d") EXCEPT !.payload.options = "absent"]>>,
      <<[Right("a") EXCEPT !.payload.body = "", !.payload.legacy = 2]>>,
      <<[Right("a") EXCEPT !.content = "video"]>> }

Form(family, sets, practice, nBlocks) ==
    [base |-> <<1>>, experiment |-> "pilot", family |-> family, sets |-> sets,
     practice |-> practice, multi |-> Len(sets) > 1, nBlocks |-> nBlocks]

\* bank 1 is the legacy one: one bank, with practice, two banks and more blocks than
\* conditions, the legacy bank, no executable configuration
MCForms ==
    { Form("", <<2>>, NoBank, 1), Form("scam", <<2>>, 3, 2), Form("", <<2, 3>>, NoBank, 3),
      Form("", <<1>>, NoBank, 1), Form("", <<2>>, NoBank, 0) }
=============================================================================

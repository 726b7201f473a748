-------------------------------- MODULE Operations --------------------------------
(***************************************************************************)
(* Numbers an operator reads or waits for: backoffDelay (server/retry.go), *)
(* classifyOperationalError and ValidateOperational (server/operations.go),*)
(* the usage report over the audit files (server/audit_report.go), and the *)
(* scores of an evaluation (server/eval.go).                               *)
(***************************************************************************)
EXTENDS Integers, Sequences, SequencesExt, FiniteSetsExt

(***************************************************************************)
(* backoffDelay: the delay doubles with each failed attempt.               *)
(***************************************************************************)
Double(delay, most) == IF delay >= most THEN delay ELSE IF delay > most \div 2 THEN most ELSE 2 * delay

Backoff(first, most, failed) ==
  LET initial == IF first < 0 THEN 0 ELSE first
      bound   == IF most < initial THEN initial ELSE most
      delay[n \in 1..failed] == IF n = 1 THEN initial ELSE Double(delay[n - 1], bound)
  IN  delay[failed]

(***************************************************************************)
(* An error is a record: code (an exit code it carries, or 0), grpc (its   *)
(* status, or "none"), net (a network error), and words, the groups of     *)
(* words its message has.                                                  *)
(***************************************************************************)
ExitOK == 0
ExitConfiguration == 10
ExitConnectivity == 11
ExitAuthorization == 12
ExitTLS == 13
ExitCompatibility == 14
ExitPartialFailure == 15

\* What a message tells, in the order it is searched.
Telling    == <<"configuration", "credential", "tls", "certificate", "incompatible", "partial">>
ToldExit   == <<ExitConfiguration, ExitAuthorization, ExitTLS, ExitTLS, ExitCompatibility, ExitPartialFailure>>

ByMessage(words) ==
  LET i == SelectInSeq(Telling, LAMBDA w : w \in words)
  IN  IF i = 0 THEN ExitConnectivity ELSE ToldExit[i]

Classify(error) ==
  LET secure == {"tls", "certificate"} \intersect error.words # {}
  IN  CASE error.code # 0 -> error.code
        [] error.code = 0 /\ error.grpc = "denied" -> ExitAuthorization
        [] error.code = 0 /\ error.grpc = "unavailable" -> IF secure THEN ExitTLS ELSE ExitConnectivity
        [] error.code = 0 /\ error.grpc = "other" ->
             IF error.net /\ "certificate" \notin error.words THEN ExitConnectivity ELSE ByMessage(error.words)

(***************************************************************************)
(* ValidateOperational: failures maps the name of a check to its exit      *)
(* code, ExitOK when it passes.  Nothing follows a wrong configuration,    *)
(* and credentials are not probed without a connection.                    *)
(***************************************************************************)
Checks(writer) ==
  <<"configuration", "audit_storage">> \o (IF writer THEN <<"writer_data_directory">> ELSE <<>>)
    \o <<"connectivity", "infrastructure", "credentials", "audit_validation">>

Graver(exit, code) == IF code # ExitOK /\ (exit = ExitOK \/ code < exit) THEN code ELSE exit

AddCheck(report, name, failures) ==
  LET status == IF name = "credentials" /\ failures["connectivity"] # ExitOK THEN "skipped"
                ELSE IF failures[name] = ExitOK THEN "passed" ELSE "failed"
  IN  IF "configuration" \in {report.checks[i][1] : i \in DOMAIN report.checks} /\ failures["configuration"] # ExitOK
        THEN report
        ELSE [checks |-> Append(report.checks, <<name, status>>),
              ok   |-> report.ok /\ status # "failed",
              exit |-> IF status = "failed" THEN Graver(report.exit, failures[name]) ELSE report.exit]

Validate(writer, failures) ==
  FoldLeft(LAMBDA report, name : AddCheck(report, name, failures),
           [checks |-> <<>>, ok |-> TRUE, exit |-> ExitOK], Checks(writer))

(***************************************************************************)
(* BuildAuditUsageReport.  A line of a file is Unreadable or a record of   *)
(* an event: tool, program, device, day (0 if it has none), failed, cut,   *)
(* and size, standing for the results, characters, bytes and milliseconds  *)
(* that are added up.  any is the program of a report about all programs.  *)
(* A line TooLong for the scanner stands for every file that cannot be     *)
(* opened or read to its end: there is no report then.                     *)
(***************************************************************************)
Unreadable == [tool |-> "unreadable"]
TooLong    == [tool |-> "too long"]
NoReport   == [error |-> "audit file is unreadable"]
UsageTools == {"hive_search", "hive_get_context"}

NoUse == [queries |-> 0, failed |-> 0, truncated |-> 0, size |-> 0]

Accumulate(row, event) ==
  [queries   |-> row.queries + 1,
   failed    |-> row.failed + (IF event.failed THEN 1 ELSE 0),
   truncated |-> row.truncated + (IF event.cut THEN 1 ELSE 0),
   size      |-> row.size + event.size]

(* Mutant: the devices of a program share a row. *)
RowOfProgram(event) == <<event.day, event.program, event.tool>>

RowKey(event) == <<event.day, event.device, event.program, event.tool>>

Wanted(line, program, any) == line.tool \in UsageTools /\ program \in {any, line.program}

Tallied(line, since, program, any) == Wanted(line, program, any) /\ line.day # 0 /\ line.day >= since

AddLine(report, line, since, program, any) ==
  LET key     == RowKey(line)
      before  == IF key \in DOMAIN report.rows THEN report.rows[key] ELSE NoUse
      undated == Wanted(line, program, any) /\ line.day = 0
  IN  IF Tallied(line, since, program, any)
        THEN [events |-> report.events + 1,
              rows   |-> [k \in DOMAIN report.rows \union {key} |->
                            IF k = key THEN Accumulate(before, line) ELSE report.rows[k]],
              totals |-> Accumulate(report.totals, line),
              noted  |-> report.noted]
        ELSE [report EXCEPT !.noted = @ \/ line = Unreadable \/ undated]

NoLines == [events |-> 0, rows |-> <<>>, totals |-> NoUse, noted |-> FALSE]

AllLines(lines, since, program, any) ==
  FoldLeft(LAMBDA report, line : AddLine(report, line, since, program, any), NoLines, lines)

UsageReport(files, since, program, any) ==
  LET lines == FlattenSeq(files)
  IN  IF TooLong \in ToSet(lines) THEN NoReport ELSE AllLines(lines, since, program, any)

(***************************************************************************)
(* scoreEvalQuery and recallAt, as the number of relevant paths found.     *)
(***************************************************************************)
FirstRelevantRank(relevant, paths) ==
  LET hits == {i \in DOMAIN paths : paths[i] \in ToSet(relevant)}
  IN  IF hits = {} THEN 0 ELSE Min(hits)

Score(relevant, paths) ==
  [first    |-> FirstRelevantRank(relevant, paths),
   distinct |-> Cardinality(ToSet(paths)),
   largest  |-> Max({Cardinality({i \in DOMAIN paths : paths[i] = p}) : p \in ToSet(paths)} \union {0})]

HitsAt(relevant, paths, k) ==
  LET found == {paths[i] : i \in 1..(IF k > Len(paths) THEN Len(paths) ELSE k)}
  IN  Cardinality({i \in DOMAIN relevant : relevant[i] \in found})
===============================================================================

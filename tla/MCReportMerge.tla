--------------------------- MODULE MCReportMerge ---------------------------
(* Instances of ReportMerge for TLC. *)
EXTENDS ReportMerge

Diagnostic(rule, place, message, severity) ==
  [rule |-> rule, place |-> place, message |-> message, severity |-> severity]

\* Two findings at one place, and one of another rule elsewhere.
Few == {Diagnostic(1, 1, 1, "error"), Diagnostic(1, 1, 2, "error"),
        Diagnostic(2, 2, 3, "warning")}
=============================================================================

--------------------------- MODULE MCCaseOutcome ---------------------------
(* TLC instance of CaseOutcome: a limit of two environment errors, and a third
   one that may come after the stop. *)
EXTENDS CaseOutcome

MCTaskLimit == 2
MCMaxErrors == 3
=============================================================================

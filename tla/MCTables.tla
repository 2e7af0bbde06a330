------------------------------ MODULE MCTables ------------------------------
(* Tables for TLC. File 2 has two statements and cannot run twice.           *)
EXTENDS Tables

MCStatements == <<1, 2, 1>>

=============================================================================

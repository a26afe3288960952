---------------------------- MODULE MCEntryFunnel ----------------------------
(***************************************************************************)
(* The limits of risk_config.py on an account of 20: a position may have 5 *)
(* and a theme 8.  All symbols share one theme.                            *)
(***************************************************************************)
EXTENDS EntryFunnel

MCThemeOf == [s \in Sym |-> "x"]

=============================================================================

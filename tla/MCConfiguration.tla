-------------------------- MODULE MCConfiguration --------------------------
(* Configurations of the parameter block for TLC. *)
EXTENDS Configuration

\* complete, without limit, with an empty limit, without serial number
MCContents ==
    {[SN |-> s, MXO |-> l] : s \in {"value"}, l \in {"value", "none", "null"}}
    \cup {[SN |-> "none", MXO |-> "value"]}
=============================================================================

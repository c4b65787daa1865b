-------------------------- MODULE MigrationScripts --------------------------
(***************************************************************************)
(* The numbered migrations: the statements of each, in the order it        *)
(* executes them.  A loop over like statements that are wrapped one by one *)
(* is one statement, since a second run of it finishes what the first left *)
(* out.  Statements next to each other that are wrapped are wrapped        *)
(* together.                                                               *)
(***************************************************************************)
EXTENDS Naturals, Sequences

\* Like statements in a row.
Times(n, kind) == [i \in 1..n |-> kind]

V2 == <<"ddl">>
V3 == <<"ddl">>
V4 == Times(5, "ddl")
V5 == Times(4, "ddl")
V6 == <<"ddl", "dml">>
V7 == <<"ddl_try">>
V8 == <<"ddl_try">>
V9 == <<"ddl_try">>
V10 == <<"ddl">>
V11 == <<"ddl", "ddl", "ddl_try">>
V12 == <<"ddl_try">>
V13 == <<"ddl", "ddl", "ddl">>
V14 == <<"ddl", "ddl_try">>
V15 == <<"ddl_try">>
V16 == <<"ddl_try">>
V17 == Times(5, "ddl")
V18 == <<"ddl", "ddl">>
V19 == <<"ddl_try", "ddl", "dml">>
V20 == <<"ddl_try">>
V21 == <<"ddl_try">>
V22 == <<"script", "seed_try">>
V23 == <<"ddl", "seed">>
V24 == <<"ddl_try">>
V25 == <<"ddl_try">>
V26 == <<"ddl_try", "ddl", "ddl">>
V27 == Times(11, "ddl") \o <<"ddl_try", "dml_try", "ddl_try">>
V28 == <<"ddl_try">>
V29 == <<"ddl_try">> \o Times(6, "ddl") \o <<"dml">>
V30 == <<"ddl", "dml", "ddl">>
V31 == <<"ddl", "ddl", "ddl">>
V32 == <<"ddl_try", "ddl", "ddl">>
V33 == <<"ddl", "ddl">>
V34 == <<"ddl_try", "seed", "seed", "ddl", "ddl_try">>
V35 == <<"ddl_try", "dml", "dml", "ddl_try">>
V36 == <<"script", "ddl_try">>
V37 == <<"script">>
V38 == <<"script">>
V39 == <<"script", "dml">>
V40 == <<"ddl", "ddl">>
V41 == <<"script">>
V42 == <<"ddl", "ddl">>
V43 == <<"dml">>
V44 == <<"dml">>
V45 == <<"ddl_try">>
V46 == <<"ddl_try">>
V47 == <<"ddl_try">>
V48 == <<"ddl", "ddl", "ddl_try">>
V49 == <<"ddl">>
V50 == <<"ddl_try">>

\* MIGRATIONS, by version; version 1 is what init_db creates itself.
MigrationList ==
    << <<>>, V2, V3, V4, V5, V6, V7, V8, V9, V10,
       V11, V12, V13, V14, V15, V16, V17, V18, V19, V20,
       V21, V22, V23, V24, V25, V26, V27, V28, V29, V30,
       V31, V32, V33, V34, V35, V36, V37, V38, V39, V40,
       V41, V42, V43, V44, V45, V46, V47, V48, V49, V50 >>
=============================================================================

---------------------------- MODULE MCTableStore ----------------------------
(* Instances of TableStore: all kinds of tables.                           *)
EXTENDS TableStore

MCKinds == {"val", "fss", "onehot", "bo"}
=============================================================================

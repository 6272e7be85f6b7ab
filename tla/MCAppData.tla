----------------------------- MODULE MCAppData ------------------------------
(* Instances of AppData for TLC. *)
EXTENDS AppData, TLC

CONSTANTS view, ipc

(* Method and policy go the same way; the method has two values here. *)
FieldValues == [method |-> {"deft", "other"}, policy |-> {"deft"},
                ttl |-> {"deft", "other", ""}]
DefaultPrefs == [f \in Fields |-> "deft"]

ClientsSymmetry == Permutations(Clients)
=============================================================================

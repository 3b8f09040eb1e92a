----------------------------- MODULE MCAuditLog -----------------------------
(* AuditLog with one process. *)
EXTENDS AuditLog
CONSTANT p1
OneProc  == {p1}
NoFaults == {}
AllFaults == {"crash", "open", "rename"}
=============================================================================

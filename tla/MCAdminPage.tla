---------------------------- MODULE MCAdminPage -----------------------------
(* AdminPage on a small instance.                                           *)
EXTENDS AdminPage
=============================================================================

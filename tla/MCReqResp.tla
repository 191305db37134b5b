----------------------------- MODULE MCReqResp -----------------------------
(* ReqResp with every kind of request under one id, a second client that   *)
(* uses the same id, and one that uses another.                            *)
EXTENDS ReqResp

CONSTANTS c1, c2

SharedIds == [id : {1}, client : {c1}, kind : Kind]
                \cup [id : {1, 2}, client : {c2}, kind : {"price"}]
=============================================================================

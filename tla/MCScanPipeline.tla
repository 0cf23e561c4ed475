--------------------------- MODULE MCScanPipeline ---------------------------
(***************************************************************************)
(* A small site, scanned from its root under a path prefix, so that its    *)
(* base page and its robots.txt lie out of scope.  Below the prefix there  *)
(* are two pages of one pattern (one of them spelled in two ways, with a   *)
(* state-changing operation, and in a third, with userinfo, that is out of *)
(* scope) and two pages of patterns of their own.                          *)
(***************************************************************************)
EXTENDS ScanPipeline

MCUrls == {"base", "robots", "user1", "user1frag", "user2", "user1cred", "list", "about"}
MCNormOf == [u \in MCUrls |-> IF u \in {"user1frag", "user1cred"} THEN "user1" ELSE u]
MCPatternOf ==
    [u \in MCUrls |-> CASE u \in {"user1", "user1frag", "user1cred", "user2"} -> "user_id"
                        [] OTHER -> u]
MCInScope == MCUrls \ {"base", "robots", "user1cred"}
MCDynamic == {"user1", "user1frag", "user2"}
MCReports ==
    {<<"GET", "list">>, <<"GET", "user1">>, <<"GET", "user2">>, <<"DELETE", "user1cred">>,
     <<"DELETE", "user1">>, <<"DELETE", "user1frag">>}
=============================================================================

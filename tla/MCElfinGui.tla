----------------------------- MODULE MCElfinGui -----------------------------
EXTENDS ElfinGui

(* Two joints between -2 and 2 that start off home. *)
MCStarts == {<<2, -1>>}
MCLower == -2
MCJoints == {1, 2}
MCScenes == {{<<1, 0>>}, {<<0, 0>>}}
MCCallers == {"main", "bg", "async", "other"}
MCButtons == {Req("joint", 1), Req("cart", -1), Req("home", TRUE)}
MCClicks == {StopReq, Req("ref", "flange")}
MCServo == {Req("disable", TRUE)}
MCOthers == {Req("velocity", 0), Req("velocity", 2), Req("noLimit", 1), Req("joint", -1), Req("joint", 3), Req("cart", 1),
             Req("enable", TRUE), Req("disable", TRUE), Req("jointGoal", None),
             Req("cartPath", None), Req("get", "ref")}
=============================================================================

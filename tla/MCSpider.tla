------------------------------ MODULE MCSpider ------------------------------
(***************************************************************************)
(* Small webs for the spider: a is the start, b and c are one link away,   *)
(* and whether d is reached depends on what b and c come to.               *)
(***************************************************************************)
EXTENDS SpiderProperties, TLC

CONSTANTS a, b, c, d, e

Page(links, words) == [status |-> "ok", urls |-> links, words |-> words]
Moved(u) == [status |-> "redirect", urls |-> {u}, words |-> "none"]
Failed(status) == [status |-> status, urls |-> {}, words |-> "none"]

MCUrl == {a, b, c, d}

MCWebs ==
    {(a :> Page({b, c}, "stored")) @@ (b :> atB) @@ (c :> atC) @@ (d :> atD) :
        atB \in {Page({a, c}, "stored"), Moved(c), Page({}, "throws")},
        atC \in {Page({b, d}, "none"), Moved(d), Failed("silent")},
        atD \in {Page({a}, "stored"), Moved(a), Failed("refused"), Failed("throws")}}

(* Five addresses, for a thread alone: e is three links from a through b   *)
(* and four through c and d.                                               *)
LongUrl == {a, b, c, d, e}

LongWebs ==
    {(a :> Page({b, c}, "stored")) @@ (b :> atB) @@ (c :> atC) @@ (d :> atD)
        @@ (e :> Page({c}, "stored")) :
        atB \in {Page({a, e}, "stored"), Moved(e), Failed("refused"), Page({}, "throws")},
        atC \in {Page({d}, "none"), Moved(d), Failed("silent")},
        atD \in {Page({e}, "stored"), Moved(e), Failed("throws")}}

(* Three addresses, for a pool of three threads.                           *)
SmallUrl == {a, b, c}

SmallWebs ==
    {(a :> Page({b, c}, "stored")) @@ (b :> Page({a, c}, "stored")) @@ (c :> atC) :
        atC \in {Moved(b), Failed("refused")}}
=============================================================================

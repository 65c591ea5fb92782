--------------------------- MODULE Screening ---------------------------
(* How a client is judged: the server's rules (crates/services/src/       *)
(* cloak.rs: classify_server), the points for the headers of a request    *)
(* (header_score) and for what the probe page reports of the browser      *)
(* (crates/app/src/web.rs: score_probe), and the verdict of cloak_verify  *)
(* on their sum.  Texts are replaced by what the rules ask of them.       *)
EXTENDS Integers, FiniteSetsExt

Points(b, n) == IF b THEN n ELSE 0

------------------------------------------------------------------------
(* The policy of a route that was never given one, but for its being off; *)
(* and the thresholds the settings allow.                                 *)
DefaultPolicy ==
    [threshold |-> 8, blacklist |-> TRUE, headers |-> TRUE, secFetch |-> TRUE,
     asn |-> TRUE, blockAsn |-> TRUE, ptr |-> FALSE, blockPtr |-> TRUE,
     blockBotPtr |-> TRUE]
Thresholds == 1 .. 100

(* What a request shows: its agent ("", "bot" or "browser"), its headers, *)
(* and, if it has an address, the answers of three look-ups about it.  A  *)
(* database "error" counts as a no for the blacklist; from the others it  *)
(* reaches the handler, which refuses.  A resolver that does not answer   *)
(* is no error: the address then has no name, "other".                    *)
HeadersPass(policy, r) ==
    policy.headers =>
        r.agent = "browser" /\ (policy.secFetch => "sec-fetch-mode" \in r.headers)
ListPasses(policy, r) == policy.blacklist => r.listed # "yes"
AsnPasses(policy, r) ==
    policy.asn /\ policy.blockAsn => r.asn \notin {"datacenter", "error"}
PtrPasses(policy, r) ==
    policy.ptr =>
        /\ r.ptr # "error"
        /\ policy.blockBotPtr => r.ptr # "crawler"
        /\ policy.blockPtr => r.ptr # "datacenter"
ServerPasses(policy, r) ==
    /\ HeadersPass(policy, r)
    /\ r.address => ListPasses(policy, r) /\ AsnPasses(policy, r) /\ PtrPasses(policy, r)

HeaderPoints ==
    [navigate |-> 3, document |-> 2, site |-> 1, user |-> 2, hints |-> 2,
     upgrade |-> 2, language |-> 2, html |-> 2, gzip |-> 1, mozilla |-> 1]
HeaderScore(headers) ==
    MapThenSumSet(LAMBDA h : HeaderPoints[h], headers \cap DOMAIN HeaderPoints)

------------------------------------------------------------------------
(* The report of the probe page.  p.gl is the kind of graphics: "" (not   *)
(* told), "software", "apple", "mobile" or "other"; p.platform the names  *)
(* of systems its two platform strings contain.                           *)
Short(p) == IF p.width < p.height THEN p.width ELSE p.height
Long(p) == IF p.width < p.height THEN p.height ELSE p.width
MobileShape(p) == Short(p) \in 1 .. 540 /\ Long(p) <= 1200 /\ p.sharp
DesktopShape(p) == Long(p) >= 1100 /\ Short(p) >= 600

(* What each device's agent should report as its platform, if anything.   *)
Platforms(device) ==
    CASE device = "ios" -> {"iphone", "ipad", "mac"}
      [] device = "android" -> {"android", "linux"}
      [] device = "windows" -> {"win"}
      [] device = "mac" -> {"mac"}

(* Variant: a report must name all the systems that would do.             *)
PlatformScoreAll(p, device) ==
    Points(/\ device \in {"ios", "android", "windows", "mac"}
           /\ p.platform # Platforms(device), -1)

(* The two strings are joined by a blank, so that even a report without a *)
(* platform is compared.                                                  *)
PlatformScore(p, device) ==
    Points(/\ device \in {"ios", "android", "windows", "mac"}
           /\ p.platform \cap Platforms(device) = {}, -1)

GraphicsScore(p, device) ==
    IF p.gl = "software" THEN -3
    ELSE Points(\/ device = "ios" /\ p.gl = "apple"
                \/ device = "android" /\ p.gl = "mobile"
                \/ device \in {"windows", "mac", "linux"} /\ p.gl # "" /\ DesktopShape(p), 1)

(* score_device_consistency: the agent against screen and touch.          *)
DeviceScore(p, device) ==
    LET mobile == device \in {"ios", "android", "mobile"} IN
    Points(mobile /\ MobileShape(p) /\ p.touch, 2)
    + Points(~mobile /\ DesktopShape(p), 1)
    - Points(mobile /\ ~p.touch, 2)
    - Points(mobile /\ DesktopShape(p) /\ ~MobileShape(p), 2)
    - Points(~mobile /\ MobileShape(p) /\ p.touch /\ device # "mac", 1)
    + Points(device = "ios" /\ p.touch /\ p.sharp, 1)
    + Points(device = "android" /\ p.touch, 1)
    + PlatformScore(p, device)
    + GraphicsScore(p, device)

LanguageScore(p, headers) ==
    IF p.language = "" \/ "language" \notin headers THEN 0
    ELSE IF p.language = "same" THEN 2 ELSE -1

ProbeScore(p, headers, device) ==
    Points(p.chrome, 2) + Points(p.plugins, 2)
    + Points(p.gl \notin {"", "software"}, 3)
    + Points(p.cores, 1)
    + Points(p.width >= 800 /\ p.height >= 600, 1)
    + Points(p.zone, 1)
    + LanguageScore(p, headers)
    + DeviceScore(p, device)

(* cloak_verify: p.automated stands for the four signs of automation.     *)
Score(policy, r, p) ==
    (IF policy.headers THEN HeaderScore(r.headers) ELSE 0)
        + ProbeScore(p, r.headers, r.device)
Admitted(policy, r, p) ==
    /\ ServerPasses(policy, r)
    /\ ~p.automated
    /\ Score(policy, r, p) >= policy.threshold

------------------------------------------------------------------------
(* Honest browsers: what kinds of devices report, with all that a browser *)
(* may withhold.  The report is sent with fetch: its headers are not      *)
(* those of a navigation.                                                 *)
Kind(device, platform, touch, gl, sizes) ==
    [device : {device}, platform : {platform}, touch : touch, gl : {"", gl}, size : sizes]
Kinds ==
    Kind("ios", {"iphone"}, {TRUE}, "apple", {<<375, 667>>, <<430, 932>>})
        \cup Kind("android", {"linux"}, {TRUE}, "mobile", {<<360, 640>>, <<412, 915>>, <<915, 412>>})
        \cup Kind("android", {"linux", "android"}, {TRUE}, "mobile", {<<360, 780>>})
        \cup Kind("mac", {"mac"}, BOOLEAN, "apple", {<<820, 1180>>, <<1440, 900>>})
        \cup Kind("windows", {"win"}, BOOLEAN, "other", {<<1366, 768>>, <<1920, 1080>>})
        \cup Kind("linux", {"linux"}, {FALSE}, "other", {<<1366, 768>>, <<1920, 1080>>})
        \cup Kind("android", {"linux"}, {TRUE}, "mobile", {<<600, 1024>>, <<800, 1280>>})

Report(k, f) ==
    [automated |-> FALSE, chrome |-> f.chromium, plugins |-> f.plugins, gl |-> k.gl,
     cores |-> f.cores, width |-> k.size[1], height |-> k.size[2],
     sharp |-> f.sharp \/ k.device = "ios", zone |-> TRUE, language |-> "same",
     touch |-> k.touch, platform |-> k.platform]
FetchRequest(k, f) ==
    [agent |-> "browser", device |-> k.device, address |-> TRUE,
     headers |-> {"sec-fetch-mode", "site", "language", "gzip", "mozilla"}
                    \cup (IF f.chromium THEN {"hints"} ELSE {}),
     listed |-> f.listed, asn |-> "other", ptr |-> "other"]
Freedom ==
    [chromium : BOOLEAN, plugins : BOOLEAN, cores : BOOLEAN, sharp : BOOLEAN,
     listed : {"no", "error"}]

(* Every honest browser is admitted at the default threshold and below,   *)
(* whatever it withholds and though the blacklist cannot be read; and no  *)
(* honest browser is admitted above 22 points, though the settings take   *)
(* thresholds up to 100: the verdict counts the headers of the report,    *)
(* which never has those of a navigation.                                 *)
HonestBrowsersAdmitted ==
    \A t \in Thresholds, k \in Kinds, f \in Freedom :
        LET policy == [DefaultPolicy EXCEPT !.threshold = t]
            admitted == Admitted(policy, FetchRequest(k, f), Report(k, f))
        IN  /\ t <= DefaultPolicy.threshold => admitted
            /\ t > 22 => ~admitted
=============================================================================

----------------------------- MODULE HostSetup -----------------------------
(***************************************************************************)
(* What the client process does to its host: the TUN device, the routes,   *)
(* the kill switch and the DNS override of src/platform/{linux,darwin,     *)
(* windows}, from the start of run_client to its exit, with a failure of   *)
(* any command and a crash between any two.                                *)
(*                                                                         *)
(* The platform layer changes the host by commands (ip, iptables, route,   *)
(* pfctl, networksetup, netsh, a system call).  hs_todo is the sequence of *)
(* commands the running callback has still to issue; a command succeeds    *)
(* ("ok"), fails without effect ("fail"), or fails after it took effect    *)
(* ("half": a networksetup that timed out).  A callback of the library     *)
(* starts only when hs_todo is empty: there is one thread.                 *)
(*                                                                         *)
(* hs_host is what survives the process; hs_p is platform_ctx_t.           *)
(***************************************************************************)
EXTENDS Naturals, Sequences, FiniteSets

CONSTANTS
    HsCases,    \* configurations: [platform, manage_routes, kill_switch, dns,
                \*   server_v6, gateway, offload, resolvectl, n (network
                \*   services), grows, faults (failures and crashes in a behaviour)]
    HsRuns,     \* starts of the process
    HsTunnels   \* tunnels the server configures in one run

VARIABLES hs_case, hs_host, hs_p, hs_todo, hs_left

hs_vars == <<hs_case, hs_host, hs_p, hs_todo, hs_left>>

Service == {"s1", "s2"}
ServiceList == <<"s1", "s2">>
TunRoutes == {"low", "high", "low6", "high6"}
Posix == hs_case.platform # "windows"

-----------------------------------------------------------------------------
(* The handler state: host, process, remaining commands, and whether an    *)
(* undoing command of this run failed.                                     *)

HsCur == [h |-> hs_host, p |-> hs_p, todo |-> hs_todo]

HsCommit(q) == /\ hs_host' = q.h
               /\ hs_p' = q.p
               /\ hs_todo' = q.todo

Call(name) == <<name, "">>
Then(q, steps) == [q EXCEPT !.todo = steps \o @]
When(c, steps) == IF c THEN steps ELSE <<>>
Spoil(q) == [q EXCEPT !.p.spoiled = TRUE]

\* What the kernel removes with the TUN device: the routes through it and
\* the resolver settings of its link.
mqvpn_tun_destroy(q) ==
    [q EXCEPT !.h.tun = FALSE, !.h.tun_dns = FALSE, !.h.routes = @ \ TunRoutes,
              !.p.tun = FALSE, !.p.tun_up = FALSE]

\* The fail label of cb_tunnel_config_ready: the rest of the callback is
\* dropped, everything set up so far is undone.
Undo == <<Call("cleanup_killswitch"), Call("cleanup_routes"), Call("dns_restore")>>
goto_fail(q) == [q EXCEPT !.todo = Undo \o <<Call("fail")>>]

-----------------------------------------------------------------------------
(* TUN device.  Linux asks for the offloads first and falls back to the   *)
(* plain device.                                                           *)

Created(q) == [q EXCEPT !.h.tun = TRUE, !.p.tun = TRUE]

mqvpn_tun_create_opts(q) ==
    Then(q, IF hs_case.offload THEN << <<"tun_open", "vnet">> >>
            ELSE << <<"tun_open", "plain">> >>)

tun_open(mode, ok, q) ==
    IF ok THEN Created(q)
    ELSE IF mode = "vnet" THEN Then(q, << <<"tun_open", "plain">> >>) ELSE goto_fail(q)

utun_create(ok, q) == IF ok THEN Created(q) ELSE goto_fail(q)
wintun_create(ok, q) == IF ok THEN Created(q) ELSE goto_fail(q)

\* Address, MTU and link state are fatal, except the MTU on Windows.
linux_tun_set_addr(ok, q) == IF ok THEN q ELSE goto_fail(q)
utun_set_addr(ok, q) == IF ok THEN q ELSE goto_fail(q)
wintun_set_addr(ok, q) == IF ok THEN q ELSE goto_fail(q)
linux_tun_set_mtu(ok, q) == IF ok THEN q ELSE goto_fail(q)
utun_set_mtu(ok, q) == IF ok THEN q ELSE goto_fail(q)
wintun_set_mtu(ok, q) == q
linux_tun_up(ok, q) == IF ok THEN q ELSE goto_fail(q)
utun_up(ok, q) == IF ok THEN q ELSE goto_fail(q)
mqvpn_tun_win_start_reader(ok, q) == IF ok THEN q ELSE goto_fail(q)

\* The IPv6 address is never fatal: has_v6 is set before the attempt, and
\* stays set for the later tunnels of the run.
linux_tun_set_addr6(q) == [q EXCEPT !.p.has_v6 = TRUE]
utun_set_addr6(q) == [q EXCEPT !.p.has_v6 = TRUE]
wintun_set_addr6(q) == [q EXCEPT !.p.has_v6 = TRUE]

-----------------------------------------------------------------------------
(* Routes: a host route to the server over the original gateway, and two   *)
(* halves of the address space through the TUN device.                     *)

Add(r) == <<"add", r>>
Del(r) == <<"del", r>>

win_setup_routes(q) ==
    IF q.p.routing_configured THEN q
    ELSE Then([q EXCEPT !.p.installed = {}],
              <<Call("best_route"), Add("pin"), Add("low"), Add("high")>>
                  \o When(q.p.has_v6, <<Add("low6"), Add("high6")>>))

SplitRoutes(q) ==
    When(hs_case.gateway, <<Add("pin")>>)
        \o <<Add("low"), Add("high")>>
        \o When(q.p.has_v6, <<Add("low6"), Add("high6")>>)

linux_setup_routes(q) == Then(q, <<Call("discover")>> \o SplitRoutes(q))

\* Darwin adds a host route scoped to the path's interface, whose failure
\* is ignored.
darwin_scoped_server_pin == <<Add("scoped")>>
scoped_server_pin_delete == <<Del("scoped")>>

darwin_setup_routes(q) ==
    Then(q, <<Call("route_get")>> \o SplitRoutes(q) \o darwin_scoped_server_pin)

setup_routes(q) ==
    CASE hs_case.platform = "linux" -> linux_setup_routes(q)
      [] hs_case.platform = "darwin" -> darwin_setup_routes(q)
      [] hs_case.platform = "windows" -> win_setup_routes(q)

discover_route(ok, q) == IF ok THEN q ELSE goto_fail(q)
route_get_and_parse(ok, q) == IF ok THEN q ELSE goto_fail(q)
GetBestRoute2(ok, q) == IF ok THEN q ELSE goto_fail(q)

\* Mutant: the host route to the server is forgotten.
undo_routes_no_pin(q) ==
    [q EXCEPT !.todo = <<Del("low"), Del("high")>> \o Undo \o <<Call("fail")>>]

\* A route that cannot be added.  Linux and Darwin take back the others at
\* once because cleanup_routes does nothing before routing_configured;
\* Windows leaves them to win_cleanup_routes.
undo_routes(q) ==
    [q EXCEPT !.todo = <<Del("low"), Del("high")>>
                           \o When(hs_case.gateway, <<Del("pin")>>)
                           \o Undo \o <<Call("fail")>>]

add_route_failed(r, q) ==
    CASE r = "pin" -> goto_fail(q)
      [] r \in {"low", "high"} -> IF Posix THEN undo_routes(q) ELSE goto_fail(q)
      [] r = "low6" -> [q EXCEPT !.todo = Tail(@)]
      [] r = "high6" -> IF Posix THEN Then(q, <<Del("low6")>>) ELSE q
      [] r = "scoped" -> q

add_route(r, ok, q) ==
    IF ~ok THEN add_route_failed(r, q)
    ELSE [q EXCEPT !.h.routes = @ \union {r}, !.p.flushed = @ /\ r # "pin",
                   !.p.installed = IF Posix THEN @ ELSE @ \union {r},
                   !.p.routing_configured = @ \/ r = "high",
                   !.p.routing6_configured = @ \/ r = "high6"]

del_route(r, ok, q) ==
    IF ok THEN [q EXCEPT !.h.routes = @ \ {r}]
    ELSE IF r \in q.h.routes THEN Spoil(q) ELSE q

win_cleanup_routes(q) ==
    LET listed(r) == When(r \in q.p.installed, <<Del(r)>>)
    IN  Then([q EXCEPT !.p.installed = {}, !.p.routing_configured = FALSE,
                       !.p.routing6_configured = FALSE],
             listed("pin") \o listed("low") \o listed("high")
                 \o listed("low6") \o listed("high6"))

Unrouted(q) ==
    [q EXCEPT !.p.routing_configured = FALSE, !.p.routing6_configured = FALSE]

DeleteSplit(q) ==
    When(q.p.routing6_configured, <<Del("low6"), Del("high6")>>)
        \o <<Del("low"), Del("high")>>
        \o When(hs_case.gateway, <<Del("pin")>>)

linux_cleanup_routes(q) ==
    IF ~q.p.routing_configured THEN q ELSE Then(Unrouted(q), DeleteSplit(q))

darwin_cleanup_routes(q) ==
    IF ~q.p.routing_configured THEN q
    ELSE Then(Unrouted(q), scoped_server_pin_delete \o DeleteSplit(q))

cleanup_routes(q) ==
    CASE ~hs_case.manage_routes -> q
      [] hs_case.manage_routes /\ hs_case.platform = "linux" -> linux_cleanup_routes(q)
      [] hs_case.manage_routes /\ hs_case.platform = "darwin" -> darwin_cleanup_routes(q)
      [] hs_case.manage_routes /\ hs_case.platform = "windows" -> win_cleanup_routes(q)

-----------------------------------------------------------------------------
(* Kill switch.  Linux: iptables rules, each tagged with the process id.   *)

Rule(r) == <<"rule", r>>
NoRule(r) == <<"norule", r>>

\* Rules whose failure aborts the tunnel, and those added for IPv6 traffic
\* inside the tunnel, whose failure is ignored.
FatalRules == IF hs_case.server_v6
              THEN <<"tun4", "lo4", "drop4", "srv6", "lo6", "drop6">>
              ELSE <<"tun4", "lo4", "drop4", "srv4">>
ExtraRules == IF hs_case.server_v6 THEN <<"tun6">> ELSE <<"tun6", "lo6", "drop6">>
AllRules == FatalRules \o ExtraRules

Elems(s) == {s[i] : i \in DOMAIN s}
Each(Op(_), s) == [i \in DOMAIN s |-> Op(s[i])]

linux_setup_killswitch(q) ==
    Then(q, Each(Rule, FatalRules) \o When(q.p.has_v6, Each(Rule, ExtraRules)))

\* Mutant: only the last rule decides.
rule_failed_ignored(r, q) == IF r = "drop4" THEN goto_fail(q) ELSE q

rule_failed(r, q) ==
    IF r \in Elems(FatalRules)
    THEN [q EXCEPT !.p.killswitch_active = TRUE,
                   !.todo = <<Call("cleanup_killswitch")>> \o Undo \o <<Call("fail")>>]
    ELSE q

run_iptables_add(r, ok, q) ==
    IF ~ok THEN rule_failed(r, q)
    ELSE [q EXCEPT !.h.rules = @ \union {<<r, q.p.run>>},
                   !.p.killswitch_active = @ \/ r = "drop4"]

run_iptables_del(r, ok, q) ==
    IF ok THEN [q EXCEPT !.h.rules = @ \ {<<r, q.p.run>>}]
    ELSE IF <<r, q.p.run>> \in q.h.rules THEN Spoil(q) ELSE q

linux_cleanup_killswitch(q) ==
    Then([q EXCEPT !.p.killswitch_active = FALSE], Each(NoRule, AllRules))

(* Darwin: one rule text in a pf anchor, and a counted reference that      *)
(* keeps pf enabled.                                                       *)

darwin_setup_killswitch(q) ==
    Then(q, <<Call("pf_rules"), Call("pf_load"), Call("pf_enable"), Call("pf_token")>>)

\* No rule text: nothing has been done yet.
build_pf_rules(ok, q) == IF ok THEN [q EXCEPT !.p.token = FALSE] ELSE goto_fail(q)

pf_aborted(q) ==
    [q EXCEPT !.p.killswitch_active = TRUE,
              !.todo = <<Call("cleanup_killswitch")>> \o Undo \o <<Call("fail")>>]

pf_load(ok, q) == IF ok THEN [q EXCEPT !.h.rules = {<<"pf", 0>>}] ELSE pf_aborted(q)
pf_enable(ok, q) == IF ok THEN [q EXCEPT !.h.pf_refs = @ + 1] ELSE pf_aborted(q)

\* The reference token is parsed from pfctl's output; without it the switch
\* stays on and its reference can never be released.
pf_token(ok, q) ==
    IF ok THEN [q EXCEPT !.p.token = TRUE, !.p.killswitch_active = TRUE]
    ELSE [q EXCEPT !.p.killswitch_active = TRUE, !.h.pf_leaked = @ + 1]

pf_flush(ok, q) ==
    IF ok THEN [q EXCEPT !.h.rules = {}]
    ELSE IF q.h.rules # {} THEN Spoil(q) ELSE q
pf_disable(ok, q) == IF ok THEN [q EXCEPT !.h.pf_refs = @ - 1] ELSE Spoil(q)

darwin_cleanup_killswitch(q) ==
    Then([q EXCEPT !.p.killswitch_active = FALSE, !.p.token = FALSE],
         <<Call("pf_flush")>> \o When(q.p.token, <<Call("pf_disable")>>))

(* Windows: filters owned by a dynamic WFP session, which go when the      *)
(* engine handle is closed or the process ends.                            *)

win_setup_killswitch(q) ==
    IF q.p.wfp # "none" THEN goto_fail(q)
    ELSE Then(q, <<Call("wfp_open"), Call("wfp_local"), Call("wfp_server"), Call("wfp_block"),
                 Call("wfp_commit")>>)

wfp_open(ok, q) == IF ok THEN [q EXCEPT !.p.wfp = "open"] ELSE goto_fail(q)

\* Any failure aborts the transaction and closes the engine.
wfp_abort(q) == goto_fail([q EXCEPT !.p.wfp = "none"])

\* The sublayer, the permits for loopback, the TUN interface and the server,
\* and the block of everything else become visible together.
wfp_add_local_permits(ok, q) == IF ok THEN q ELSE wfp_abort(q)
wfp_add_server_permit(ok, q) == IF ok THEN q ELSE wfp_abort(q)
wfp_add_block_all(ok, q) == IF ok THEN q ELSE wfp_abort(q)

wfp_commit(ok, q) ==
    IF ok THEN [q EXCEPT !.h.rules = {<<"wfp", 0>>}, !.p.killswitch_active = TRUE]
    ELSE wfp_abort(q)

wfp_close(ok, q) ==
    IF ok THEN [q EXCEPT !.h.rules = {}, !.p.wfp = "none", !.p.killswitch_active = FALSE]
    ELSE [q EXCEPT !.p.wfp = "close_failed"]

win_cleanup_killswitch(q) ==
    CASE q.p.wfp = "none" -> [q EXCEPT !.p.killswitch_active = FALSE]
      [] q.p.wfp = "close_failed" -> q
      [] q.p.wfp = "open" -> Then(q, <<Call("wfp_close")>>)

setup_killswitch(q) ==
    IF ~hs_case.kill_switch \/ q.p.killswitch_active THEN q
    ELSE CASE hs_case.platform = "linux" -> linux_setup_killswitch(q)
           [] hs_case.platform = "darwin" -> darwin_setup_killswitch(q)
           [] hs_case.platform = "windows" -> win_setup_killswitch(q)

cleanup_killswitch(q) ==
    IF ~Posix THEN win_cleanup_killswitch(q)
    ELSE IF ~q.p.killswitch_active THEN q
    ELSE IF hs_case.platform = "linux" THEN linux_cleanup_killswitch(q)
    ELSE darwin_cleanup_killswitch(q)

-----------------------------------------------------------------------------
(* DNS on Linux: the resolver's setting of the TUN link, or else           *)
(* /etc/resolv.conf ("s1") with a copy beside it.                          *)

linux_dns_apply(q) == Then(q, <<Call("resolvectl_status")>>)

\* resolvectl is absent or refuses: override the file.
resolv_fallback(q) ==
    Then([q EXCEPT !.p.use_resolvectl = FALSE],
         <<Call("resolv_lock"), Call("resolv_backup"), Call("resolv_open"),
           Call("resolv_write")>>)

detect_resolvectl(q) ==
    IF hs_case.resolvectl THEN Then([q EXCEPT !.p.use_resolvectl = TRUE], <<Call("resolvectl_dns")>>)
    ELSE resolv_fallback(q)

apply_resolvectl(ok, q) ==
    IF ok THEN [q EXCEPT !.h.tun_dns = TRUE, !.p.dns_active = TRUE]
    ELSE resolv_fallback(q)

\* Return -1 from mqvpn_dns_apply: the callback goes on without an override.
drop_dns(todo) ==
    SelectSeq(todo, LAMBDA t : t[1] \notin {"resolv_backup", "resolv_open", "resolv_write"})

\* Busy: another instance manages DNS.  Not creatable ("half"): go on
\* without the lock.
resolv_lock(out, q) ==
    CASE out = "ok" -> [q EXCEPT !.p.lock = TRUE]
      [] out = "fail" -> [q EXCEPT !.todo = drop_dns(@)]
      [] out = "half" -> q

\* The copy fails before it truncated the old backup, or after ("half"); the
\* override goes on without one.
resolv_backup(out, q) ==
    CASE out = "ok" -> [q EXCEPT !.h.file = TRUE, !.h.backup["s1"] = q.h.dns["s1"]]
      [] out = "fail" -> q
      [] out = "half" -> [q EXCEPT !.h.file = TRUE, !.h.backup["s1"] = "cut"]

\* Opening truncates, for good (lost) if the backup does not hold the original;
\* a stream that cannot be made of the descriptor ("half") leaves the file
\* empty, and no restore follows.
resolv_open(out, q) ==
    CASE out = "ok" -> [q EXCEPT !.h.dns["s1"] = "cut",
                                 !.h.lost = @ \/ q.h.backup["s1"] # "orig"]
      [] out = "fail" -> [q EXCEPT !.p.lock = FALSE, !.todo = drop_dns(@)]
      [] out = "half" -> [q EXCEPT !.h.dns["s1"] = "cut", !.h.lost = TRUE, !.p.lock = FALSE,
                                   !.todo = drop_dns(@)]

resolv_write(q) == [q EXCEPT !.h.dns["s1"] = "ours", !.p.dns_active = TRUE]

linux_dns_restore(q) ==
    IF q.p.use_resolvectl
    THEN [q EXCEPT !.h.tun_dns = FALSE, !.p.dns_active = FALSE]
    ELSE Then([q EXCEPT !.p.dns_active = FALSE], <<Call("resolv_restore")>>)

\* A failed copy leaves the backup but gives up the lock and forgets it; without
\* a backup there is nothing to copy.
resolv_restore(out, q) ==
    LET r == [q EXCEPT !.p.lock = FALSE]
    IN  CASE out = "ok" /\ q.h.file ->
               [r EXCEPT !.h.dns["s1"] = q.h.backup["s1"], !.h.file = FALSE,
                         !.h.backup["s1"] = "none"]
          [] out = "half" /\ q.h.file -> Spoil([r EXCEPT !.h.dns["s1"] = "cut"])
          [] OTHER -> IF q.h.file THEN Spoil(r) ELSE r

-----------------------------------------------------------------------------
(* DNS on Darwin: every network service's server list, with the originals  *)
(* in a backup file that outlives the process.                             *)

NoBackup == [s \in Service |-> "none"]
Present(q) == SelectSeq(ServiceList, LAMBDA s : s \in q.h.services)

release_lock_if_inactive(q) == [q EXCEPT !.p.lock = q.p.dns_active]

\* Drop the rest of mqvpn_dns_apply.
ApplySteps == {"list", "validate", "get_dns", "backup", "rename", "sync", "set", "applied"}
return_from_apply(todo) == SelectSeq(todo, LAMBDA t : t[1] \notin ApplySteps)

apply_refused(q) ==
    release_lock_if_inactive([q EXCEPT !.todo = return_from_apply(@)])

darwin_dns_apply(q) ==
    Then([q EXCEPT !.p.preexisting = FALSE, !.p.set_count = 0],
         <<Call("acquire_lock"), Call("list")>>)

acquire_lock(ok, q) ==
    IF ok \/ q.p.lock THEN [q EXCEPT !.p.lock = TRUE]
    ELSE [q EXCEPT !.todo = return_from_apply(@)]

\* A backup that is already there is kept: it holds the only copy of the
\* originals.  Otherwise one is written beside its place and renamed.
list_services(ok, q) ==
    IF ~ok \/ q.h.services = {} THEN apply_refused(q)
    ELSE Then([q EXCEPT !.p.preexisting = q.h.file],
              (IF q.h.file THEN <<Call("validate")>>
               ELSE <<Call("get_dns"), Call("backup"), Call("rename"), Call("sync")>>)
                  \o Each(LAMBDA s : <<"set", s>>, Present(q))
                  \o <<Call("applied")>>)

\* The values read while the temporary file is written, put in place by the
\* rename; a failure before it leaves no backup, one after it leaves one.
get_dns_servers(ok, q) == IF ok THEN q ELSE apply_refused(q)
write_backup(ok, q) == IF ok THEN q ELSE apply_refused(q)
validate_existing_backup(ok, q) == IF ok THEN q ELSE apply_refused(q)
Listed(q) == {s \in Service : <<"set", s>> \in Elems(q.todo)}

rename_backup(ok, q) ==
    IF ~ok THEN apply_refused(q)
    ELSE [q EXCEPT !.h.file = TRUE,
                   !.h.backup = [s \in Service |-> IF s \in Listed(q)
                                                   THEN q.h.dns[s] ELSE "none"]]

sync_backup(ok, q) == IF ok THEN q ELSE apply_refused(q)

\* restore_from_backup_file for the services of a filter; "restored" says
\* which caller decides what a failure means.
restore_from_backup_file(q, filter, caller) ==
    LET lines == SelectSeq(ServiceList, LAMBDA s : s \in filter /\ q.h.backup[s] # "none")
    IN  Then([q EXCEPT !.p.restore_ok = q.h.file],
             Each(LAMBDA s : <<"restore_one", s>>, lines) \o << <<"restored", caller>> >>)

\* Mutant: the service whose command failed is not rolled back.
rollback_filter_short(q, s) ==
    IF q.p.preexisting THEN Service
    ELSE {ServiceList[i] : i \in {i \in DOMAIN ServiceList :
              \E j \in DOMAIN ServiceList : i < j /\ ServiceList[j] = s}}

\* The set loop stops at the first service it cannot set; what it did is
\* taken back, the failed service included, from the backup.
rollback_filter(q, s) ==
    IF q.p.preexisting THEN Service
    ELSE {ServiceList[i] : i \in {i \in DOMAIN ServiceList :
              \E j \in DOMAIN ServiceList : i <= j /\ ServiceList[j] = s}}

set_service(s, out, q) ==
    LET touched == [q EXCEPT !.h.dns[s] = "ours"]
    IN  CASE q.p.preexisting /\ q.h.backup[s] = "none" -> q
          [] out = "ok" -> [touched EXCEPT !.p.dns_active = TRUE, !.p.set_count = @ + 1]
          [] OTHER ->
               LET r == [IF out = "half" THEN touched ELSE q
                             EXCEPT !.todo = return_from_apply(@)]
               IN  restore_from_backup_file(r, rollback_filter(q, s), "apply")

apply_done(q) == IF q.p.set_count = 0 THEN release_lock_if_inactive(q) ELSE q

restore_one(s, out, q) ==
    LET back == [q EXCEPT !.h.dns[s] = q.h.backup[s]]
    IN  CASE out = "ok" -> back
          [] out = "half" -> Spoil([back EXCEPT !.p.restore_ok = FALSE])
          [] out = "fail" -> Spoil([q EXCEPT !.p.restore_ok = FALSE])

\* All lines restored: the backup is deleted.  Otherwise backup and lock
\* stay for a retry (but the start of the process always gives up the lock).
restored(caller, q) ==
    LET gone == [q EXCEPT !.h.file = FALSE, !.h.backup = NoBackup]
    IN  CASE q.p.restore_ok /\ caller # "stale" ->
               [gone EXCEPT !.p.dns_active = FALSE, !.p.lock = FALSE]
          [] ~q.p.restore_ok /\ caller = "apply" -> [q EXCEPT !.p.dns_active = TRUE]
          [] ~q.p.restore_ok /\ caller = "restore" -> q
          [] caller = "stale" ->
               [IF q.p.restore_ok THEN gone ELSE q EXCEPT !.p.lock = FALSE]

darwin_dns_restore(q) == restore_from_backup_file(q, Service, "restore")

mqvpn_dns_restore_stale(ok, q) ==
    IF ~q.h.file THEN q
    ELSE IF ~ok THEN Spoil(q)
    ELSE restore_from_backup_file([q EXCEPT !.p.lock = TRUE], Service, "stale")

(* DNS on Windows: a setting of the TUN adapter, by the API or by netsh.   *)

win_setup_dns(q) == IF q.p.dns_active THEN q ELSE Then(q, <<Call("dns_api")>>)

set_interface_dns(ok, q) ==
    IF ok THEN [q EXCEPT !.h.tun_dns = TRUE, !.p.dns_active = TRUE]
    ELSE Then(q, <<Call("dns_netsh")>>)

set_dns_netsh(ok, q) ==
    IF ok THEN [q EXCEPT !.h.tun_dns = TRUE, !.p.dns_active = TRUE] ELSE q

win_cleanup_dns(q) == [q EXCEPT !.h.tun_dns = FALSE, !.p.dns_active = FALSE]

mqvpn_dns_apply(q) ==
    CASE hs_case.platform = "linux" -> linux_dns_apply(q)
      [] hs_case.platform = "darwin" -> darwin_dns_apply(q)
      [] hs_case.platform = "windows" -> win_setup_dns(q)

mqvpn_dns_restore(q) ==
    IF ~q.p.dns_active THEN q
    ELSE CASE hs_case.platform = "linux" -> linux_dns_restore(q)
           [] hs_case.platform = "darwin" -> darwin_dns_restore(q)
           [] hs_case.platform = "windows" -> win_cleanup_dns(q)

-----------------------------------------------------------------------------
(* The callbacks of the library and the event loop.                        *)

\* cb_tunnel_config_ready: device, routes, kill switch, DNS, read event.
HostSteps ==
    When(hs_case.manage_routes, <<Call("setup_routes")>>)
        \o <<Call("setup_killswitch")>>
        \o When(hs_case.dns, <<Call("dns_apply")>>)

linux_tunnel_config(v6) ==
    <<Call("tun_create_opts"), Call("linux_addr"), Call("linux_mtu"), Call("linux_up")>>
        \o When(v6, <<Call("linux_addr6")>>) \o HostSteps \o <<Call("ev_tun")>>
darwin_tunnel_config(v6) ==
    <<Call("utun_create"), Call("utun_addr"), Call("utun_mtu"), Call("utun_up")>>
        \o When(v6, <<Call("utun_addr6")>>) \o HostSteps \o <<Call("ev_tun")>>
win_tunnel_config(v6) ==
    <<Call("wintun_create"), Call("wintun_addr"), Call("wintun_mtu")>>
        \o When(v6, <<Call("wintun_addr6")>>) \o HostSteps
        \o <<Call("start_reader"), Call("ev_tun")>>

cb_tunnel_config_ready(v6, q) ==
    LET r == IF q.p.tun THEN mqvpn_tun_destroy(q) ELSE q
    IN  [r EXCEPT !.p.state = "TUNNEL_READY",
                  !.todo = CASE hs_case.platform = "linux" -> linux_tunnel_config(v6)
                             [] hs_case.platform = "darwin" -> darwin_tunnel_config(v6)
                             [] hs_case.platform = "windows" -> win_tunnel_config(v6)]

arm_tun(ok, q) ==
    IF ok THEN [q EXCEPT !.p.tun_up = TRUE, !.p.state = "ESTABLISHED"]
    ELSE goto_fail(q)

\* The state callback for RECONNECTING and CLOSED.
cb_state_changed(new, q) ==
    Then([q EXCEPT !.p.state = new], Undo \o << <<"state_changed", new>> >>)

\* mqvpn_client_disconnect moves to CLOSED at once, unless it is there.
mqvpn_client_disconnect(q) ==
    IF q.p.state = "CLOSED" THEN q ELSE cb_state_changed("CLOSED", q)

\* Mutant: the loop goes on after CLOSED.
closed_no_break(q) == [q EXCEPT !.p.fatal = @ \/ ~q.p.shutting_down]

\* CLOSED breaks the event loop; one nobody asked for is fatal.
closed(q) == [q EXCEPT !.p.fatal = @ \/ ~q.p.shutting_down, !.p.loopbreak = TRUE]

posix_state_changed(new, q) ==
    LET r == IF q.p.tun_up THEN mqvpn_tun_destroy(q) ELSE q
    IN  IF new = "CLOSED" THEN closed(r) ELSE r

\* Windows: filters that can no longer be removed end the process.
win_state_changed(new, q) ==
    LET r == IF q.p.tun_up THEN mqvpn_tun_destroy(q) ELSE q
        stuck == r.p.wfp = "close_failed" /\ ~r.p.shutting_down
        f == IF stuck THEN [r EXCEPT !.p.fatal = TRUE, !.p.shutting_down = TRUE] ELSE r
    IN  IF new = "CLOSED" THEN closed(f)
        ELSE IF stuck THEN mqvpn_client_disconnect(f) ELSE f

\* The end of the fail label.
tunnel_setup_failed(q) ==
    LET r == IF q.p.tun THEN mqvpn_tun_destroy(q) ELSE q
    IN  mqvpn_client_disconnect([r EXCEPT !.p.fatal = TRUE, !.p.shutting_down = TRUE])

on_signal(q) ==
    mqvpn_client_disconnect([q EXCEPT !.p.shutting_down = TRUE, !.p.loopbreak = TRUE])

\* The console handler only wakes the loop, which ignores a second request.
on_shutdown_wake(q) == IF q.p.shutting_down THEN q ELSE on_signal(q)

\* The process is gone: the kernel closes the TUN device and the locks, and
\* the Base Filtering Engine drops the filters of a dynamic session.
process_gone(q) ==
    LET r == mqvpn_tun_destroy(q)
    IN  [r EXCEPT !.p.alive = FALSE, !.p.lock = FALSE, !.todo = <<>>,
                  !.h.rules = IF Posix THEN @ ELSE {}]

process_exit(q) == [process_gone(q) EXCEPT !.p.exited = TRUE]

\* run_client up to the event loop.  Before the event base exists a failure
\* returns at once; after it, by the cleanup label.  A start refused because
\* another instance holds the lock leaves the host to that one.
acquire_instance_lock(ok, q) == IF ok THEN q ELSE process_gone(q)
startup_early(ok, q) == IF ok THEN q ELSE process_exit(q)
startup_late(ok, q) == IF ok THEN q ELSE [q EXCEPT !.p.loopbreak = TRUE, !.todo = <<>>]

Connects == <<Call("client_new"), Call("open_paths"), Call("connect")>>
linux_run_client == Connects
\* Only Darwin undoes what a crashed run left.
darwin_run_client ==
    <<Call("instance_lock"), Call("restore_stale"), Call("pf_flush")>> \o Connects
win_run_client == Connects

\* The cleanup label: the host first, the device and the events with the exit.
linux_cleanup == Undo \o <<Call("exit")>>
darwin_cleanup == Undo \o <<Call("exit")>>
win_cleanup == Undo \o <<Call("exit")>>

-----------------------------------------------------------------------------
(* One command of the running callback.                                    *)

Silent == {"tun_create_opts", "linux_addr6", "utun_addr6", "wintun_addr6", "setup_routes",
           "cleanup_routes", "setup_killswitch", "cleanup_killswitch", "dns_apply",
           "dns_restore", "resolvectl_status", "resolv_write", "applied", "restored",
           "state_changed", "fail", "exit"}
Halves == {"set", "restore_one", "resolv_lock", "resolv_backup", "resolv_open", "resolv_restore"}
Outcomes(op) == IF op \in Silent THEN {"ok"}
                ELSE IF op \in Halves THEN {"ok", "fail", "half"} ELSE {"ok", "fail"}

HsExec(op, arg, out, q) ==
    LET ok == out = "ok"
    IN  CASE op = "instance_lock" -> acquire_instance_lock(ok, q)
          [] op = "client_new" -> startup_early(ok, q)
          [] op \in {"open_paths", "connect"} -> startup_late(ok, q)
          [] op = "tun_create_opts" -> mqvpn_tun_create_opts(q)
          [] op = "tun_open" -> tun_open(arg, ok, q)
          [] op = "utun_create" -> utun_create(ok, q)
          [] op = "wintun_create" -> wintun_create(ok, q)
          [] op = "linux_addr" -> linux_tun_set_addr(ok, q)
          [] op = "utun_addr" -> utun_set_addr(ok, q)
          [] op = "wintun_addr" -> wintun_set_addr(ok, q)
          [] op = "linux_mtu" -> linux_tun_set_mtu(ok, q)
          [] op = "utun_mtu" -> utun_set_mtu(ok, q)
          [] op = "wintun_mtu" -> wintun_set_mtu(ok, q)
          [] op = "linux_up" -> linux_tun_up(ok, q)
          [] op = "utun_up" -> utun_up(ok, q)
          [] op = "linux_addr6" -> linux_tun_set_addr6(q)
          [] op = "utun_addr6" -> utun_set_addr6(q)
          [] op = "wintun_addr6" -> wintun_set_addr6(q)
          [] op = "start_reader" -> mqvpn_tun_win_start_reader(ok, q)
          [] op = "setup_routes" -> setup_routes(q)
          [] op = "discover" -> discover_route(ok, q)
          [] op = "route_get" -> route_get_and_parse(ok, q)
          [] op = "best_route" -> GetBestRoute2(ok, q)
          [] op = "add" -> add_route(arg, ok, q)
          [] op = "del" -> del_route(arg, ok, q)
          [] op = "cleanup_routes" -> cleanup_routes(q)
          [] op = "setup_killswitch" -> setup_killswitch(q)
          [] op = "rule" -> run_iptables_add(arg, ok, q)
          [] op = "norule" -> run_iptables_del(arg, ok, q)
          [] op = "pf_rules" -> build_pf_rules(ok, q)
          [] op = "pf_load" -> pf_load(ok, q)
          [] op = "pf_enable" -> pf_enable(ok, q)
          [] op = "pf_token" -> pf_token(ok, q)
          [] op = "pf_flush" -> pf_flush(ok, q)
          [] op = "pf_disable" -> pf_disable(ok, q)
          [] op = "wfp_open" -> wfp_open(ok, q)
          [] op = "wfp_local" -> wfp_add_local_permits(ok, q)
          [] op = "wfp_server" -> wfp_add_server_permit(ok, q)
          [] op = "wfp_block" -> wfp_add_block_all(ok, q)
          [] op = "wfp_commit" -> wfp_commit(ok, q)
          [] op = "wfp_close" -> wfp_close(ok, q)
          [] op = "cleanup_killswitch" -> cleanup_killswitch(q)
          [] op = "dns_apply" -> mqvpn_dns_apply(q)
          [] op = "resolvectl_status" -> detect_resolvectl(q)
          [] op = "resolvectl_dns" -> apply_resolvectl(ok, q)
          [] op = "resolv_lock" -> resolv_lock(out, q)
          [] op = "resolv_backup" -> resolv_backup(out, q)
          [] op = "resolv_open" -> resolv_open(out, q)
          [] op = "resolv_write" -> resolv_write(q)
          [] op = "resolv_restore" -> resolv_restore(out, q)
          [] op = "acquire_lock" -> acquire_lock(ok, q)
          [] op = "list" -> list_services(ok, q)
          [] op = "validate" -> validate_existing_backup(ok, q)
          [] op = "get_dns" -> get_dns_servers(ok, q)
          [] op = "backup" -> write_backup(ok, q)
          [] op = "rename" -> rename_backup(ok, q)
          [] op = "sync" -> sync_backup(ok, q)
          [] op = "set" -> set_service(arg, out, q)
          [] op = "applied" -> apply_done(q)
          [] op = "restore_one" -> restore_one(arg, out, q)
          [] op = "restored" -> restored(arg, q)
          [] op = "dns_api" -> set_interface_dns(ok, q)
          [] op = "dns_netsh" -> set_dns_netsh(ok, q)
          [] op = "dns_restore" -> mqvpn_dns_restore(q)
          [] op = "restore_stale" -> mqvpn_dns_restore_stale(ok, q)
          [] op = "ev_tun" -> arm_tun(ok, q)
          [] op = "state_changed" ->
               IF Posix THEN posix_state_changed(arg, q) ELSE win_state_changed(arg, q)
          [] op = "fail" -> tunnel_setup_failed(q)
          [] op = "exit" -> process_exit(q)

-----------------------------------------------------------------------------
(* The process and its surroundings.                                       *)

NewProcess(run) ==
    [alive |-> TRUE, run |-> run, state |-> "CONNECTING", tunnels |-> 0, tun |-> FALSE,
     tun_up |-> FALSE, has_v6 |-> FALSE, routing_configured |-> FALSE,
     routing6_configured |-> FALSE, installed |-> {}, killswitch_active |-> FALSE,
     wfp |-> "none", token |-> FALSE, dns_active |-> FALSE, use_resolvectl |-> FALSE,
     lock |-> FALSE, preexisting |-> FALSE, set_count |-> 0, restore_ok |-> TRUE,
     shutting_down |-> FALSE, fatal |-> FALSE, loopbreak |-> FALSE, exited |-> FALSE,
     spoiled |-> FALSE, flushed |-> FALSE]

CleanHost(n) ==
    [tun |-> FALSE, tun_dns |-> FALSE, routes |-> {}, rules |-> {}, pf_refs |-> 0,
     pf_leaked |-> 0, services |-> {ServiceList[i] : i \in 1..n},
     dns |-> [s \in Service |-> "orig"], file |-> FALSE, backup |-> NoBackup,
     dirty |-> FALSE, lost |-> FALSE]

HsInit ==
    /\ hs_case \in HsCases
    /\ hs_host = CleanHost(hs_case.n)
    /\ hs_p = [NewProcess(0) EXCEPT !.alive = FALSE]
    /\ hs_todo = <<>>
    /\ hs_left = hs_case.faults

\* Entry of run_client.
RunClient ==
    /\ ~hs_p.alive
    /\ hs_p.run < HsRuns
    /\ hs_p' = NewProcess(hs_p.run + 1)
    /\ hs_todo' = CASE hs_case.platform = "linux" -> linux_run_client
                    [] hs_case.platform = "darwin" -> darwin_run_client
                    [] hs_case.platform = "windows" -> win_run_client
    /\ hs_host' = [hs_host EXCEPT !.dirty = @ \/ hs_p.spoiled]
    /\ UNCHANGED <<hs_case, hs_left>>

Command ==
    /\ hs_p.alive
    /\ hs_todo # <<>>
    /\ LET step == Head(hs_todo)
       IN  \E out \in Outcomes(step[1]) :
               /\ out = "ok" \/ hs_left > 0
               /\ hs_left' = IF out = "ok" THEN hs_left ELSE hs_left - 1
               /\ HsCommit(HsExec(step[1], step[2], out, [HsCur EXCEPT !.todo = Tail(@)]))
    /\ UNCHANGED hs_case

Idle == hs_p.alive /\ hs_todo = <<>> /\ ~hs_p.loopbreak

\* The server assigned an address.
TunnelConfigured(v6) ==
    /\ Idle
    /\ hs_p.state = "CONNECTING"
    /\ hs_p.tunnels < HsTunnels
    /\ HsCommit([cb_tunnel_config_ready(v6, HsCur) EXCEPT !.p.tunnels = @ + 1])
    /\ UNCHANGED <<hs_case, hs_left>>

\* The connection ended: it is retried, or not.
ConnectionLost(new) ==
    /\ Idle
    /\ hs_p.state \in {"CONNECTING", "ESTABLISHED"}
    /\ HsCommit(cb_state_changed(new, HsCur))
    /\ UNCHANGED <<hs_case, hs_left>>

Reconnect ==
    /\ Idle
    /\ hs_p.state = "RECONNECTING"
    /\ hs_p' = [hs_p EXCEPT !.state = "CONNECTING"]
    /\ UNCHANGED <<hs_case, hs_host, hs_todo, hs_left>>

Signal ==
    /\ Idle
    /\ HsCommit(IF Posix THEN on_signal(HsCur) ELSE on_shutdown_wake(HsCur))
    /\ UNCHANGED <<hs_case, hs_left>>

\* event_base_dispatch returned: the cleanup label of run_client.
LoopExit ==
    /\ hs_p.alive
    /\ hs_todo = <<>>
    /\ hs_p.loopbreak
    /\ hs_todo' = CASE hs_case.platform = "linux" -> linux_cleanup
                    [] hs_case.platform = "darwin" -> darwin_cleanup
                    [] hs_case.platform = "windows" -> win_cleanup
    /\ UNCHANGED <<hs_case, hs_host, hs_p, hs_left>>

Crash ==
    /\ hs_p.alive
    /\ hs_left > 0
    /\ hs_left' = hs_left - 1
    /\ LET q == process_gone(HsCur)
       IN  HsCommit([q EXCEPT !.h.dirty = TRUE])
    /\ UNCHANGED hs_case

\* A network service appears.
ServiceAdded ==
    /\ hs_case.grows
    /\ "s2" \notin hs_host.services
    /\ hs_host' = [hs_host EXCEPT !.services = Service]
    /\ UNCHANGED <<hs_case, hs_p, hs_todo, hs_left>>

\* The interface of the host routes to the server goes down: the kernel
\* flushes them with it.
InterfaceDown ==
    /\ hs_p.alive
    /\ hs_host.routes \cap {"pin", "scoped"} # {}
    /\ hs_left > 0 /\ hs_left' = hs_left - 1
    /\ hs_host' = [hs_host EXCEPT !.routes = @ \ {"pin", "scoped"}]
    /\ hs_p' = [hs_p EXCEPT !.flushed = TRUE]
    /\ UNCHANGED <<hs_case, hs_todo>>

\* Darwin's monitor re-adds or reactivates a path on it, and before that the
\* path's scoped route (netmon_platform_pre_readd, netmon_platform_pre_reactivate).
PathReturns ==
    /\ Idle
    /\ hs_case.platform = "darwin"
    /\ hs_p.flushed /\ hs_p.routing_configured
    /\ HsCommit(Then(HsCur, darwin_scoped_server_pin))
    /\ UNCHANGED <<hs_case, hs_left>>

HsNext ==
    \/ RunClient
    \/ Command
    \/ \E v6 \in BOOLEAN : TunnelConfigured(v6)
    \/ \E new \in {"RECONNECTING", "CLOSED"} : ConnectionLost(new)
    \/ Reconnect
    \/ Signal
    \/ LoopExit
    \/ Crash
    \/ ServiceAdded
    \/ InterfaceDown
    \/ PathReturns

\* The process runs: commands return and the loop sees its break flag.
HsFairness == WF_hs_vars(Command) /\ WF_hs_vars(LoopExit)

HsSpec == HsInit /\ [][HsNext]_hs_vars /\ HsFairness

-----------------------------------------------------------------------------
(* Properties.                                                             *)

\* Type correctness of host and process.
HsTypeOK ==
    /\ hs_case \in HsCases
    /\ hs_host.routes \subseteq TunRoutes \union {"pin", "scoped"}
    /\ hs_host.dns \in [Service -> {"orig", "ours", "cut"}]
    /\ hs_host.backup \in [Service -> {"none", "orig", "ours", "cut"}]
    /\ hs_p.state \in {"CONNECTING", "TUNNEL_READY", "ESTABLISHED", "RECONNECTING", "CLOSED"}
    /\ hs_p.wfp \in {"none", "open", "close_failed"}
    /\ hs_left \in 0..hs_case.faults

\* A process that ended by itself left the host as it found it, whatever
\* part of the tunnel's setup had failed before, as long as the undoing
\* commands themselves worked, with one exception: on Linux mqvpn_dns_apply
\* overwrites /etc/resolv.conf even when it could not copy it, and returns
\* without a restore when it has truncated but cannot write it; its contents
\* are then lost, and only the rest of the host is restored.  After a crash
\* the claim still holds for the kill switch and DNS on Darwin, where the next
\* start cleans up, and for the kill switch on Windows, whose filters die with
\* their session.
HostRestored ==
    /\ HsTypeOK
    /\ (hs_p.exited /\ ~hs_p.spoiled) =>
          /\ ~hs_host.tun
          /\ ~hs_host.tun_dns
          /\ (~hs_host.dirty =>
                 /\ hs_host.routes = {}
                 /\ hs_host.rules = {}
                 /\ hs_host.pf_refs = hs_host.pf_leaked)
          /\ (hs_case.platform = "linux" /\ ~hs_host.dirty =>
                 hs_host.dns["s1"] = "orig" \/ hs_host.lost)
          /\ (hs_case.platform = "darwin" =>
                 hs_host.rules = {} /\ \A s \in Service : hs_host.dns[s] = "orig")
          /\ (hs_case.platform = "windows" => hs_host.rules = {})

KillSwitchRules(run) ==
    CASE hs_case.platform = "linux" -> {<<r, run>> : r \in Elems(FatalRules)}
      [] hs_case.platform = "darwin" -> {<<"pf", 0>>}
      [] hs_case.platform = "windows" -> {<<"wfp", 0>>}

\* While the tunnel carries traffic its surroundings are whole: the device
\* exists, both halves of the default route point at it and the server is
\* pinned outside it, every fatal rule of the kill switch is installed, and
\* on Linux and Darwin IPv6 is routed entirely or not at all (unless a
\* deletion failed).  The pin is there from the end of the setup until its
\* interface goes down: the kernel flushes it then, and nothing restores it
\* before the next setup (Darwin re-adds the scoped pins only).
TunnelWhole ==
    (hs_p.alive /\ hs_p.tun_up /\ hs_todo = <<>>) =>
        /\ hs_host.tun
        /\ (hs_case.manage_routes =>
               /\ {"low", "high"} \subseteq hs_host.routes
               /\ hs_case.gateway \/ ~Posix => "pin" \in hs_host.routes \/ hs_p.flushed
               /\ Posix /\ ~hs_p.spoiled =>
                     ("low6" \in hs_host.routes) = ("high6" \in hs_host.routes))
        /\ (hs_case.kill_switch => KillSwitchRules(hs_p.run) \subseteq hs_host.rules)

\* As long as a service's DNS servers are mqvpn's, its original servers are
\* in the backup file, and a process that still has to restore them holds
\* the lock: across failed applies, rollbacks, restores and restarts on
\* Darwin; on Linux until a crash, a failed restore or an apply that lost them.
DnsRecoverable ==
    /\ (hs_case.platform = "darwin"
            \/ (hs_case.platform = "linux" /\ ~hs_host.dirty /\ ~hs_host.lost /\ ~hs_p.spoiled)) =>
          \A s \in Service : hs_host.dns[s] # "orig" =>
              hs_host.file /\ hs_host.backup[s] = "orig"
    /\ (hs_case.platform = "darwin" /\ hs_p.alive /\ hs_p.dns_active) => hs_p.lock

\* A client that is told to stop, whose tunnel could not be set up, whose
\* connection was closed for good or whose kill switch could not be removed
\* ends.
HsEnds == (hs_p.alive /\ (hs_p.shutting_down \/ hs_p.fatal)) ~> ~hs_p.alive
=============================================================================

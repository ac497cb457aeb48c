---------------------------- MODULE DatabaseUrl ----------------------------
(***************************************************************************)
(* The guard of infra/env.py: which DATABASE_URLs a program that writes    *)
(* may connect with, against the hosts that libpq then connects to.        *)
(*                                                                         *)
(* A URL is its form, the host in its netloc as urllib reads it ("bad":    *)
(* one that urllib cannot read), the first and the last of the host=       *)
(* parameters in its query string, whether the query has a hostaddr or a   *)
(* service, and whether it is `odd`: a '#', a '?' or a second '@' stands   *)
(* in front of the host, where urllib and libpq end a part differently.    *)
(* `first` skips parameters with no value, as parse_qs() does.  A host is  *)
(* "socket", "local" or "remote".  PGHOST and lists of hosts, which        *)
(* refuse_remote() declares it does not read, are left out.                *)
(***************************************************************************)

Urls == {u \in [form   : {"uri", "keywords"},
                netloc : {"none", "local", "remote", "bad"},
                first  : {"none", "socket", "local", "remote"},
                last   : {"none", "blank", "socket", "local", "remote"},
                extra  : BOOLEAN,
                odd    : BOOLEAN] :
            /\ u.first = "none" => u.last \in {"none", "blank"}
            /\ u.last = "none" => u.first = "none"}

Unknown == "unknown"

\* parts.hostname: none at all is the unix socket.
NetlocHost == [none |-> "socket", local |-> "local", remote |-> "remote", bad |-> Unknown]

\* Mutant: the netloc is read before the query string (README finding #44).
NetlocFirst(u) ==
    IF u.form # "uri" THEN Unknown
    ELSE IF u.netloc # "none" THEN NetlocHost[u.netloc]
    ELSE IF u.first # "none" THEN u.first ELSE "socket"

\* resolved_host(): the first host in the query string wins over the netloc; no
\* host at all is the unix socket; a form or a netloc it cannot read has no answer.
ResolvedHost(u) ==
    IF u.form # "uri" THEN Unknown
    ELSE IF u.first # "none" THEN u.first
    ELSE NetlocHost[u.netloc]

\* _is_local(): a hostaddr or a service is never local, nor is what cannot be read.
IsLocal(u) ==
    /\ ~(u.form = "uri" /\ u.extra)
    /\ ResolvedHost(u) \in {"socket", "local"}

\* refuse_remote(), with LEDGEX_ALLOW_REMOTE_DB = 1 or without.
Refused(u, override) == ~IsLocal(u) /\ ~override

\* admin_connect() and dump_schema() pass on the host that resolved_host() gives
\* and raise without one.
AdminHosts(u) == {ResolvedHost(u)} \ {Unknown}

\* The hosts libpq may connect to with this URL.  The last host in the query string
\* wins over the others and over the netloc, and a blank one is the unix socket; a
\* hostaddr, a service (whose file may name any host), a keyword string or an odd
\* URL may lead anywhere, and a netloc nobody can read leads nowhere.
LibpqHosts(u) ==
    IF u.form # "uri" \/ u.extra \/ u.odd THEN {"socket", "local", "remote"}
    ELSE IF u.last = "blank" THEN {"socket"}
    ELSE IF u.last # "none" THEN {u.last}
    ELSE {NetlocHost[u.netloc]} \ {Unknown}

\* A URL whose host libpq and urllib read from the same place.
NamesOneHost(u) == ~u.odd /\ u.last \in {u.first, "blank"}

\* Every connection that the guard lets a program make: where to, with the override
\* or without, and whether the URL names one host.
Connections ==
    {c \in [to : {"socket", "local", "remote"}, override : BOOLEAN, oneHost : BOOLEAN] :
        \E u \in Urls : /\ ~Refused(u, c.override)
                        /\ c.to \in LibpqHosts(u) \cup AdminHosts(u)
                        /\ c.oneHost = NamesOneHost(u)}
=============================================================================

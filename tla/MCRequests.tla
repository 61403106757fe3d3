------------------------------- MODULE MCRequests -------------------------------
(***************************************************************************)
(* The three modules that decide about requests, side by side: one of the  *)
(* services takes steps, the others stay at their beginning, so that TLC   *)
(* explores the sum of the three state spaces.                             *)
(***************************************************************************)
EXTENDS UploadPack, NpmRoutes, S3Requests

VARIABLE service   \* the one that gets the requests: "git", "npm" or "s3"

-----------------------------------------------------------------------------
(* The npm proxy: two registries, one of them on two ports, and an upstream *)
(* at an address.                                                          *)

At(host, path) == Direct(UpstreamPath(host, path), FALSE)
By(host, path, query) == Proxied(URL("http", host, path, query))
Tgz(packages) == {p \o <<"-", "a.tgz">> : p \in packages}

MCHosts == {"reg", "alt", "alt:81", "10.0.0.1"}
Config(scheme, host, path, allowed) ==
  [upstream |-> URL(scheme, host, path, FALSE), allowed |-> allowed]
MCConfigs ==
  {Config("https", "reg", <<>>, {"reg", "alt"}), Config("https", "reg", <<>>, {"alt"}),
   Config("https", "reg", <<"api">>, {"reg", "alt"}),
   Config("http", "reg", <<>>, {"reg", "alt"}),
   Config("http", "10.0.0.1", <<>>, {"10.0.0.1", "alt"})}

NpmAsked ==
  {Direct(<<"foo">>, q) : q \in BOOLEAN}
  \cup {Direct(p, FALSE) :
          p \in {<<"@s">>, <<"@s", "foo">>, <<"api", "foo">>}
                  \cup Tgz({<<"@s", "foo">>, <<"@t", "foo">>})}
  \cup {At(h, <<"foo">>) : h \in MCHosts}
  \cup {At("reg", <<"foo", "-", "a.tgz">>), At("alt", <<"foo", "a.tgz">>)}
  \cup {At("alt", p) : p \in Tgz({<<"npm">>, <<"npm", "@s", "foo">>, <<"npm", "@t", "foo">>})}
  \cup {By("alt", <<"foo">>, q) : q \in BOOLEAN} \cup {By("reg", <<"foo">>, FALSE)}
  \cup {By("alt:81", p, q) : p \in Tgz({<<"foo">>}), q \in BOOLEAN}
MCLocked ==
  {URL(s, h, <<"foo", "-", "a.tgz">>, q) :
     s \in {"http", "https"}, h \in MCHosts, q \in BOOLEAN}

MCSegments ==
  MCHosts \cup {"proxy", "_upstream", "-", "@s", "@t", "api", "foo", "npm", "a.tgz"}
MCHostname == [h \in MCHosts |-> IF h = "alt:81" THEN "alt" ELSE h]

-----------------------------------------------------------------------------
(* The S3 proxy: two objects, the first spelled in two ways, and two scopes *)
(* that are cached and one that is not.                                    *)

Request(method, scope, path, params, range, conds) ==
  [method |-> method, scope |-> scope, path |-> path, params |-> params,
   range |-> range, conds |-> conds]
Bytes(first, last) == [unit |-> "bytes", list |-> <<<<first, last>>>>]

MCRanges ==
  {Bytes(1, None), Bytes(1, 1), Bytes(2, 9), Bytes(3, None), Bytes(None, 2), Bytes(None, 9),
   Bytes(None, 0), Bytes(2, 1), [unit |-> "lines", list |-> <<<<0, 1>>>>],
   [unit |-> "bytes", list |-> <<<<0, 0>>, <<2, 2>>>>]}
Conditions ==
  {Cond(kind, {<<"a", 2>>}) : kind \in {"match", "none-match", "since", "range"}}
  \cup {Cond("none-match", {<<"a", 3>>})}

S3Sent ==
  {Request("GET", "s1", "a", p, NoRange, {}) :
     p \in {"none", "signed", "version", "part", "list"}}
  \cup {Request("GET", "s1", "a", "none", g, {}) : g \in MCRanges}
  \cup {Request("GET", "s1", "a", "none", NoRange, {c}) : c \in Conditions}
  \cup {Request("GET", s, "a", "none", NoRange, {}) : s \in {"anon", "s2"}}
  \cup {Request("GET", "s1", p, "none", NoRange, {}) : p \in {"%61", "b", "/"}}
  \cup {Request(m, "s1", "a", "none", NoRange, {}) : m \in {"HEAD", "OPTIONS", "DELETE"}}
  \cup {Request("PUT", s, "a", "none", NoRange, {}) : s \in {"s1", "s2", "anon"}}
  \cup {Request("GET", "s1", "a", "none", Bytes(1, 1), {Cond("range", {<<"a", 2>>})}),
        Request("GET", "s1", "b", "none", NoRange, {Cond("since", {<<"b", 2>>})}),
        Request("PUT", "s2", "b", "none", NoRange, {}),
        Request("PUT", "s1", "%61", "none", NoRange, {}),
        Request("POST", "s1", "a", "upload", NoRange, {}),
        Request("POST", "s1", "/", "delete", NoRange, {})}

MCNames ==
  [p \in {"a", "%61", "b", "/"} |->
     IF p = "b" THEN "b" ELSE IF p = "/" THEN "bucket" ELSE "a"]
MCUntagged == {<<"a", 1>>, <<"b", 1>>, <<"b", 2>>, <<"b", 3>>}
MCUndated == {<<"b", 1>>}
MCCacheable == [s \in {"s1", "s2", "anon"} |-> s # "anon"]

-----------------------------------------------------------------------------
AllInit ==
  /\ service \in {"git", "npm", "s3"}
  /\ Init /\ NpmInit /\ S3Init
  /\ service # "git" => v2
  /\ service # "npm" => config = CHOOSE c \in Configs : TRUE

AllNext ==
  \/ service = "git" /\ Next /\ UNCHANGED <<service, npmVars, s3Vars>>
  \/ service = "npm" /\ NpmNext /\ UNCHANGED <<service, vars, s3Vars>>
  \/ service = "s3" /\ S3Next /\ UNCHANGED <<service, vars, npmVars>>

AllSpec == AllInit /\ [][AllNext]_<<service, vars, npmVars, s3Vars>>
=============================================================================

--------------------------- MODULE MCProxyConfig ----------------------------
(***************************************************************************)
(* ProxyConfig for TLC: containers that share hosts, aliases and networks. *)
(***************************************************************************)
EXTENDS ProxyConfig, TLC

Tcp(n) == [num |-> n, proto |-> "tcp"]
Udp(n) == [num |-> n, proto |-> "udp"]
Bound(ip, n) == [ip |-> ip, port |-> n]

\* www.ex, published on port 32768 of the host.
Web == [gone |-> FALSE, hostname |-> <<"id">>, domainname |-> <<>>,
        labels |-> [hostname |-> <<"www">>, domain |-> <<"ex">>],
        aliases |-> <<>>, websockets |-> <<>>, options |-> <<>>,
        ports |-> Tcp(80) :> <<Bound("0.0.0.0", 32768)>>, joined |-> {}]

With(c, l, v) == [c EXCEPT !.labels = (l :> v) @@ @]

\* A stopped container publishes no ports, but it is listed.
Stopped(c) == [c EXCEPT !.ports = << >>, !.joined = {}]

Secure == With(With(With(Web, "ssl_only", ""), "ssl", ""), "ssl_cert", "c1")

OnNetwork == [With(Web, "network", "net1") EXCEPT !.joined = {"net1"},
                                                  !.ports = Tcp(8080) :> <<>>]

Aliased == [Secure EXCEPT !.aliases = <<<<"alt">>>>, !.websockets = <<"/ws">>,
                          !.options = <<"o1">>]

\* Its own host is the alias of Aliased; its hostname is its domain.
Alt == [Web EXCEPT !.labels = [hostname |-> <<"alt">>, domain |-> <<"alt">>]]

\* Two context roots with the same name, the second with an alias.
Root1 == With(With(Web, "context_root", <<"/", "a", "/", "b">>),
              "context_root_rewrite", "")
Root2 == [With(Web, "context_root", <<"/", "a", "_", "b">>)
            EXCEPT !.aliases = <<<<"alt">>>>]

Checked == With(With(Web, "health_check", "httpchk"), "balance_algorithm", "leastconn")

BadCheck == With(With(Web, "health_check_interval", NotANumber),
                 "context_root_rewrite", "")

\* Two ports on two addresses of the host.
TwoPorts == [With(Web, "port", 8080) EXCEPT
               !.ports = (Tcp(80) :> <<Bound("10.0.0.1", 1)>>) @@
                         (Tcp(8080) :> <<Bound("0.0.0.0", 2), Bound("0.0.0.0", 3)>>)]

\* The labelled port is published over TCP and only exposed over UDP.
Unpublished == [TwoPorts EXCEPT !.ports = (Udp(8080) :> <<>>) @@ @]

Nameless == [Web EXCEPT !.labels = [hostname |-> <<"www">>]]

Vanished == [Web EXCEPT !.gone = TRUE]

AllContainers ==
  {Web, Stopped(Web), Secure, OnNetwork, Stopped(OnNetwork), Aliased, Alt,
   Root1, Root2, Checked, BadCheck, TwoPorts, Unpublished, Nameless, Vanished}
=============================================================================

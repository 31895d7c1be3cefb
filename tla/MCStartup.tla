----------------------------- MODULE MCStartup ------------------------------
(***************************************************************************)
(* Startup for TLC: the default configuration, the one `interlock spec`    *)
(* prints, and texts with the entries that the constructors tell apart:    *)
(* several load balancers, names in another case, beacons with every kind  *)
(* of interval, a missing template, and every kind of PollInterval.        *)
(***************************************************************************)
EXTENDS Startup

MCTexts == {"default", "spec", "broken", "two", "case", "beacons", "stats",
            "quick", "template", "badpoll"}

\* strings.ToLower of the names in these texts.
MCToLower(name) == CASE name \in {"Nginx", "NGINX"} -> "nginx"
                     [] name = "HAProxy" -> "haproxy"
                     [] name = "Beacon" -> "beacon"
                     [] OTHER -> name

Ext(name, options, template, interval) ==
  [name |-> name, options |-> options, template |-> template,
   interval |-> interval]

Plain(name) == Ext(name, {}, FALSE, NoInterval)

Conf(exts, url, certs, metrics, poll) ==
  [exts |-> exts, url |-> url, certs |-> certs, metrics |-> metrics,
   poll |-> poll]

MCMeaning == [t \in MCTexts |->
  CASE t = "default" -> Conf(<<>>, "good", {}, TRUE, NoInterval)
    [] t = "spec" -> SpecAction
    [] t = "two" -> Conf(<<Plain("nginx"), Plain("haproxy")>>, "good", {}, FALSE,
                         NoInterval)
    [] t = "case" -> Conf(<<Plain("HAProxy"), Plain("nginx"), Plain("other"),
                            Plain("NGINX")>>, "", {"cert", "key"}, TRUE, NoInterval)
    [] t = "beacons" ->
         Conf(<<Plain("Nginx"), Plain("Beacon"), Ext("Beacon", {"StatsInterval"}, FALSE, 5000), Plain("beacon")>>, "good", {"ca", "cert", "key"}, TRUE, 5000)
    [] t = "stats" ->
         Conf(<<Ext("beacon", {"StatsInterval"}, FALSE, BadInterval),
                Ext("beacon", {"StatsInterval"}, FALSE, 0)>>, "good", {}, TRUE, 0)
    [] t = "template" -> Conf(<<Ext("haproxy", {"TemplatePath"}, FALSE, NoInterval)>>,
                              "good", {}, FALSE, 500)
    [] t = "quick" -> Conf(<<Plain("haproxy"), Plain("beacon")>>, "good", {}, FALSE,
                           500)
    [] OTHER -> Conf(<<Plain("haproxy")>>, "", {}, FALSE, BadInterval)]
=============================================================================

---- MODULE MCWifiSetup ----
EXTENDS WifiSetup
CONSTANTS home, shop

\* Two networks: one that goes out of range and whose internet fails, and one
\* next door whose DHCP fails.
TwoNets == {home, shop}
TwoLevels == [n \in TwoNets |-> IF n = home THEN {"gone", "dud", "ok"} ELSE {"bare", "ok"}]
====

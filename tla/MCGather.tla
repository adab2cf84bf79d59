------------------------------ MODULE MCGather ------------------------------
(***************************************************************************)
(* A small instance of Gather: three targets, four ways to write the first *)
(* of them, rows that are no target; two proxies with two spellings of one *)
(* and offers that are not taken.                                          *)
(***************************************************************************)
EXTENDS Gather

Host(name, spelling, address) ==
    [name |-> name, spelling |-> spelling, address |-> address, valid |-> TRUE]
BadHost == [name |-> "", spelling |-> "", address |-> FALSE, valid |-> FALSE]

None == [scheme |-> "", host |-> BadHost, port |-> 0]
Row(url, ip, port, protocol, base, domain) ==
    [url |-> url, ip |-> ip, port |-> port, protocol |-> protocol, base |-> base,
     domain |-> domain]

\* http://A and http://a:80, the address alone, and base protocol with domain.
OneByUrl   == Row([scheme |-> "http", host |-> Host("a", "capital", FALSE), port |-> 0],
                  BadHost, 0, "", "", BadHost)
OneByPort  == Row([scheme |-> "http", host |-> Host("a", "plain", FALSE), port |-> 80],
                  BadHost, 8080, "", "", BadHost)
OneByName  == Row(None, BadHost, 80, "", "http", Host("a", "final dot", FALSE))
TwoByUrl   == Row([scheme |-> "https", host |-> Host("1.1.1.1", "plain", TRUE), port |-> 0],
                  BadHost, 0, "", "", BadHost)
TwoByIp    == Row(None, Host("1.1.1.1", "mapped", TRUE), 443, "https", "", BadHost)
Three      == Row([scheme |-> "http", host |-> Host("a", "plain", FALSE), port |-> 0],
                  BadHost, 81, "", "", BadHost)
NoTarget   == Row(None, Host("1.1.1.1", "plain", TRUE), 0, "ftp", "", BadHost)

AllRows == {OneByUrl, OneByPort, OneByName, TwoByUrl, TwoByIp, Three, NoTarget}

\* All answers of up to four rows, but that new targets come in one order.
Hunter ==
    {s \in UNION {[1..n -> {OneByUrl, TwoByIp, Three, NoTarget}] : n \in 0..4} :
        \A i \in 1..Len(s) :
           /\ s[i] = TwoByIp => \E j \in 1..(i - 1) : s[j] = OneByUrl
           /\ s[i] = Three => \E j \in 1..(i - 1) : s[j] = TwoByIp}
    \cup {<<OneByName, OneByUrl, OneByPort, TwoByUrl>>}

Fofa == {<< >>, <<TwoByUrl, OneByName, OneByPort>>}

Offer(host, spelling, protocol, port, validated) ==
    [host |-> Host(host, spelling, FALSE), protocol |-> [name |-> protocol, spelling |-> spelling],
     port |-> port, validated |-> validated]
P1 == Offer("p", "plain", "socks5", 1080, TRUE)
P2 == Offer("p", "capital", "socks5", 1080, TRUE)
Q  == Offer("q", "plain", "socks5", 1080, TRUE)
No == {Offer("q", "plain", "http", 1080, TRUE), Offer("q", "plain", "socks5", 65536, TRUE),
       Offer("q", "plain", "socks5", 1080, FALSE)}

AllOffers == {P1, P2, Q} \cup No
Answered  == {No, {P1, P2}, {P2, Q}}

\* The sources of the settings: none, or a comment and repeated URLs.
ManualLists == {<< >>, <<Comment, <<"http", "a", 81>>, <<"http", "a", 81>>,
                         <<"https", "1.1.1.1", 443>> >>}

AllSources == {<<"http", "a", 80>>, <<"http", "a", 81>>, <<"https", "1.1.1.1", 443>>}
=============================================================================

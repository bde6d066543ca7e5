--------------------------- MODULE MCProductFeed ---------------------------
(***************************************************************************)
(* Scripts of three or four products, each aired as it is issued, three     *)
(* polls late or never: a warning that is cut and cancelled beside a        *)
(* climate report; a flood warning until further notice that is extended    *)
(* and ended; alerts without VTEC and a product the parser refuses; airport *)
(* reports and radar pictures.                                              *)
(***************************************************************************)
EXTENDS ProductFeed

Seg(zones, vtec, until) == [zones |-> zones, vtec |-> vtec, until |-> until, ended |-> FALSE]
Line(event, action, ends) == [event |-> event, action |-> action, ends |-> ends]
Product(id, type, heading, at, segs) ==
  [id |-> id, type |-> type, heading |-> heading, office |-> "EWX", at |-> at, aired |-> Never,
   served |-> TRUE, parses |-> TRUE, segs |-> segs, reports |-> {}]

Tornado ==
  <<Product(1, "TOR", "WFUS54", 1, <<Seg({"a", "b"}, <<Line("TO1", "NEW", 6)>>, 6)>>),
    Product(2, "SVS", "WWUS54", 2, <<Seg({"a"}, <<Line("TO1", "CAN", 6)>>, 3),
                                     Seg({"b"}, <<Line("TO1", "CON", 6)>>, 6)>>),
    Product(3, "CLI", "CDUS44", 2, <<>>)>>
Flood ==
  <<Product(1, "FLW", "WGUS44", 1, <<Seg({"a"}, <<Line("FL1", "NEW", None)>>, 3)>>),
    Product(2, "FLS", "WGUS84", 3, <<Seg({"a"}, <<Line("FL1", "EXT", 8)>>, 8)>>),
    Product(3, "FLS", "WGUS84", 4, <<Seg({"a"}, <<Line("FL1", "EXP", 8)>>, 5)>>)>>
Alerts ==
  <<Product(1, "AQA", "AEUS74", 1, <<Seg({"a", "b"}, <<>>, 7)>>),
    [Product(2, "SPS", "WWUS84", 2, <<Seg({"a"}, <<>>, 4)>>) EXCEPT !.parses = FALSE],
    Product(3, "AQA", "AEUS74", 3, <<[Seg({"b"}, <<>>, 7) EXCEPT !.ended = TRUE]>>),
    [Product(4, "SVR", "WUUS54", 3, <<>>) EXCEPT !.served = FALSE]>>
Airport ==
  <<[Product(1, "SAH", "SAUS44", 1, <<>>) EXCEPT !.reports = {<<"KAUS", 1>>, <<"KATT", 1>>}],
    Product(2, "RAD", "QATA00", 1, <<>>),
    [Product(3, "SAH", "SAUS44", 2, <<>>) EXCEPT !.reports = {<<"KAUS", 2>>, <<"KXXX", 2>>}],
    Product(4, "RAD", "QATA00", 4, <<>>)>>

Late == 3
MCScripts ==
  UNION {{[i \in DOMAIN s |-> [s[i] EXCEPT !.aired = IF delay[i] = Never THEN Never ELSE s[i].at + delay[i]]] :
            delay \in [DOMAIN s -> {0, Late, Never}]} : s \in {Tornado, Flood, Alerts, Airport}}
=============================================================================

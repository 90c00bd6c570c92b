----------------------------- MODULE MCReadApi -----------------------------
(***************************************************************************)
(* An instance of ReadApi for TLC.  Three flaggers: two of one name under  *)
(* different DSCs, one of which the register also spells in capitals, and  *)
(* one that lists two labels of one area and has no address of its own but *)
(* a mailto link.  The fourth row has no readable date.                    *)
(***************************************************************************)
EXTENDS ReadApi

MCDate == 1..2

MCCountry == {"FR", "NL"}

Text(word, caps) == [word |-> word, caps |-> caps]

Address(user, domain, caps) == [user |-> user, domain |-> domain, caps |-> caps]

MCAreaLabelMap ==
    (Text("protection", FALSE) :> "consumer") @@ (Text("information", FALSE) :> "consumer")

Arcom == [word |-> "arcom", code |-> "FR", caps |-> TRUE]

Raw(name, dsc, country, date, labels, contact, url) ==
    [name |-> name, dsc |-> dsc, country |-> country, date |-> date,
     areas |-> labels, contact |-> contact, contactUrl |-> url]

Ours == Raw(Text(1, FALSE), Blank, "NL", 1, <<Text("unheard of", FALSE)>>,
            Address("info", "a", TRUE), Blank)

OursInCapitals == [Ours EXCEPT !.name = Text(1, TRUE), !.areas = <<>>]

Namesake == Raw(Text(1, FALSE), Arcom, "NL", 1,
                <<Text("protection", FALSE)>>, Blank, Blank)

Consumers == Raw(Text(2, FALSE), Blank, "FR", 2,
                 <<Text("protection", TRUE), Text("information", FALSE)>>,
                 Blank, [address |-> Address("info", "b", FALSE)])

Undated == Raw(Text(3, FALSE), Blank, "FR", 0, <<>>, Blank, Blank)

MCPayload == {<<Ours, Namesake, Consumers>>, <<OursInCapitals, Consumers, Undated>>, <<>>}

NoFilter == [status |-> "all", country |-> {}, dsc |-> None, after |-> None,
             before |-> None, area |-> {}, word |-> None]

MCQuery == {NoFilter,
            [NoFilter EXCEPT !.status = "active", !.area = {"consumer", Other}],
            [NoFilter EXCEPT !.status = "removed", !.country = {"NL"}, !.before = 1],
            [NoFilter EXCEPT !.status = "suspended"],
            [NoFilter EXCEPT !.dsc = "FR", !.after = 2, !.word = 2]}

MCLookup == {[by |-> "none", value |-> None], [by |-> "website", value |-> None],
             [by |-> "email", value |-> Address("info", "a", FALSE)],
             [by |-> "email", value |-> Address("info", "a", TRUE)],
             [by |-> "email", value |-> Address("info", "b", TRUE)],
             [by |-> "email", value |-> Address("info", Blank, FALSE)],
             [by |-> "domain", value |-> Text("b", TRUE)],
             [by |-> "website", value |-> Text("a", FALSE)]}
=============================================================================

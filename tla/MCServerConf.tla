---------------------------- MODULE MCServerConf ----------------------------
(* ServerConf for TLC: versions of the file derived from the template.       *)
EXTENDS ServerConf, TLC

E(t, x, n) == [type |-> t, value |-> [text |-> x, num |-> n], null |-> FALSE]
Null(t) == [type |-> t, value |-> Empty, null |-> TRUE]

\* conf/serverinfo.xml.temp, with some of its entries and a negative number.
Template ==
    [addressInfo |-> <<E("serverIp", "localhost", 0), E("port", "2019", 2019),
                       E("WorkerThreadTaskMax", "-1", -1)>>,
     loggerinfo  |-> <<E("LoggerName", "gameserver", 0), E("hour", "2", 2),
                       E("minutes", "30", 30), E("flushCache", "1", 1)>>,
     redisInfo   |-> <<E("redisAddress", "127.0.0.1", 127),
                       E("redisPort", "6379", 6379)>>,
     uniqueInfo  |-> <<E("serverID", "server01", 0)>>]

Other ==
    [Template EXCEPT
        !.addressInfo = <<E("port", "2019", 2019), E("port", "2020", 2020)>>,
        !.loggerinfo = <<E("hour", "3", 3), E("flushCache", "60", 60)>>,
        !.redisInfo = <<E("redisPort", "7000", 7000)>>]

File(sec) == [ok |-> TRUE, sec |-> sec]

\* Has something wrong in every section: a missing type, a setting that is
\* unknown after a known one, no section, a missing value.  A load meets the
\* later ones when the file was replaced by this one in between.
Broken ==
    [s \in DOMAIN Fields \ {"redisInfo"} |->
        CASE s = "addressInfo" -> <<E("port", "2021", 2021), Null("NULL")>>
          [] s = "loggerinfo" -> <<E("hour", "4", 4), E("colour", "red", 0),
                                   E("hour", "5", 5)>>
          [] s = "uniqueInfo" -> <<Null("serverID")>>]

\* Unreadable; the template and another good file; a flush interval of five
\* minutes; the broken file.
ConfFiles ==
    {[ok |-> FALSE, sec |-> Template], File(Template), File(Other),
     File([Template EXCEPT !.loggerinfo = <<E("flushCache", "300", 300)>>]),
     File(Broken)}
=============================================================================

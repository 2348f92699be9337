------------------------------- MODULE MCCron -------------------------------
(***************************************************************************)
(* Expressions and start times for Cron.                                   *)
(***************************************************************************)
EXTENDS Cron

star == <<[kind |-> "star", lo |-> 0, hi |-> 0, step |-> 0]>>
Num(n) == <<[kind |-> "one", lo |-> n, hi |-> n, step |-> 0]>>
Every(n) == <<[kind |-> "star", lo |-> 0, hi |-> 0, step |-> n]>>
From(n, k) == <<[kind |-> "one", lo |-> n, hi |-> n, step |-> k]>>
Between(n, m) == <<[kind |-> "range", lo |-> n, hi |-> m, step |-> 0]>>

Expr(s, mi, h, dom, mon, dow) ==
  [seconds |-> s, minutes |-> mi, hours |-> h, days_of_month |-> dom,
   months |-> mon, days_of_week |-> dow]

MCExpressions == {
  Expr(Every(20), Every(30), Num(12), star, star, star),
  Expr(Num(0), Every(30), Num(12), star, star, star),
  Expr(Num(0), Num(15), Num(10), star, star, Between(1, 5)),
  Expr(Num(10) \o Num(30), Num(0), star, star, star, star),
  Expr(Num(0), Num(11), Num(11), Num(11), Num(11), star),
  Expr(Num(0), Num(0), Num(12), From(1, 5), star, star),
  Expr(Num(0), Num(0), Num(12), star, Num(2), star),
  Expr(Num(0), Num(0), Num(9), Num(29), Num(2), star),
  Expr(Num(0), Num(0), Num(0), Num(31), star, Num(3)),
  Expr(Num(0), Num(0), Num(0), Num(13), star, Num(5)),
  Expr(Num(0), Num(0), Num(0), Num(31), Num(4), star),
  Expr(Num(0), Num(0), Num(24), star, star, star)}

Tm(y, mo, d, h, mi, s) ==
  Normal([tm_sec |-> s, tm_min |-> mi, tm_hour |-> h, tm_mday |-> d,
          tm_mon |-> mo - 1, tm_year |-> y, tm_wday |-> 0])

MCStartTimes == {
  Tm(2021, 1, 31, 10, 15, 0), Tm(2021, 3, 1, 0, 5, 20),
  Tm(2021, 12, 31, 23, 59, 59), Tm(2020, 2, 28, 12, 0, 20),
  Tm(2021, 3, 16, 10, 15, 0), Tm(2019, 11, 11, 11, 11, 0),
  Tm(2027, 8, 14, 0, 0, 0), Tm(2021, 6, 30, 9, 0, 30),
  Tm(2021, 3, 31, 12, 0, 0)}
=============================================================================

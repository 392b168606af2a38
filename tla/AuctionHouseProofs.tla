------------------------- MODULE AuctionHouseProofs -------------------------
(***************************************************************************)
(* Theorems about the bidding and settlement core, for any users,          *)
(* auctions, listings, amounts, faults and bounds.  First what each        *)
(* movement of Accounts does to every wallet: it keeps the records well    *)
(* typed, it keeps a wallet explained by its rows, it keeps its hold       *)
(* covered when the amount was available, and it shows a sale only when it *)
(* is one; then what a sum of amounts over a finite set is (the library    *)
(* states no fact about it); then the actions, one by one: types and       *)
(* ledgers, the sale, the climb of English bids, and at last the outcome   *)
(* of an auction and what the holds of the wallets are for.                *)
(***************************************************************************)
EXTENDS AuctionHouseProperties, Functions, FiniteSetTheorems, NaturalsInduction,
        WellFoundedInduction, SequenceTheorems, TLAPS

-----------------------------------------------------------------------------
(* Wallets                                                                 *)

\* The balance and the hold of a wallet follow from the totals of its rows.
Explained(x) ==
  /\ x.held = x.holds - x.releases - x.refunds - x.won
  /\ x.balance = x.deposits + x.unlogged - x.withdrawals
                   + x.refunds + x.sold - x.won - x.bought

\* Beyond what was bought directly, the hold does not exceed the balance.
Covered(x) == x.held <= x.balance + x.bought

\* Wallets q are typed and, where wallets p were explained, explained.
KeepsBooks(U, p, q) ==
  /\ q \in [U -> Account]
  /\ \A v \in U : Explained(p[v]) => Explained(q[v])

KeepsCovered(U, p, q) == \A v \in U : Covered(p[v]) => Covered(q[v])

\* What users paid for auctions and earned by them is the same in p and q.
KeepsSales(U, p, q) ==
  \A v \in U : q[v].won + q[v].bought = p[v].won + p[v].bought /\ q[v].sold = p[v].sold

\* q shows, besides what p shows, that payer paid amount to seller.
ShowsSale(U, p, q, payer, seller, amount) ==
  \A v \in U :
    /\ q[v].won + q[v].bought =
         p[v].won + p[v].bought + (IF v = payer THEN amount ELSE 0)
    /\ q[v].sold = p[v].sold + (IF v = seller THEN amount ELSE 0)

-----------------------------------------------------------------------------
\* The columns of an account are numbers.
LEMMA ColumnTypes ==
  ASSUME NEW x \in Account
  PROVE  /\ x.balance \in Int /\ x.held \in Int /\ x.unlogged \in Nat
         /\ x.deposits \in Nat /\ x.withdrawals \in Nat
         /\ x.holds \in Nat /\ x.releases \in Nat /\ x.refunds \in Nat
         /\ x.won \in Nat /\ x.bought \in Nat /\ x.sold \in Nat
BY DEF Account

\* The columns that a movement writes together can take any value of their types.
LEMMA ColumnUpdates ==
  ASSUME NEW x \in Account, NEW b \in Int, NEW h \in Int, NEW k \in Nat
  PROVE  /\ [x EXCEPT !.held = h, !.holds = k] \in Account
         /\ [x EXCEPT !.held = h, !.releases = k] \in Account
         /\ [x EXCEPT !.balance = b, !.held = h, !.refunds = k] \in Account
         /\ [x EXCEPT !.balance = b, !.held = h, !.won = k] \in Account
         /\ [x EXCEPT !.balance = b, !.bought = k] \in Account
         /\ [x EXCEPT !.balance = b, !.sold = k] \in Account
         /\ [x EXCEPT !.balance = b, !.unlogged = k] \in Account
         /\ [x EXCEPT !.balance = b, !.withdrawals = k] \in Account
BY DEF Account

\* Writing the two deposit columns keeps a row an account (wallet.service deposit).
LEMMA RowUpdate ==
  ASSUME NEW x \in Account, NEW k \in Nat, NEW l \in Nat
  PROVE  [x EXCEPT !.unlogged = k, !.deposits = l] \in Account
BY DEF Account

\* placeBid's hold: covered when the amount was available.
LEMMA HoldFacts ==
  ASSUME NEW U, NEW p \in [U -> Account], NEW u \in U, NEW n \in Nat
  PROVE  /\ KeepsBooks(U, p, Hold(p, u, n))
         /\ KeepsSales(U, p, Hold(p, u, n))
         /\ Available(p[u]) >= n => KeepsCovered(U, p, Hold(p, u, n))
<1> DEFINE x == [p[u] EXCEPT !.held = @ + n, !.holds = @ + n]
           q == Hold(p, u, n)
<1>1. x \in Account
  <2>1. p[u].held + n \in Int /\ p[u].holds + n \in Nat
    BY ColumnTypes
  <2> QED BY <2>1, ColumnUpdates
<1>2. \A v \in U : q[v] = IF v = u THEN x ELSE p[v]
  BY DEF Hold
<1>3. q \in [U -> Account]
  BY <1>1 DEF Hold
<1>4. /\ Explained(p[u]) => Explained(x)
      /\ Available(p[u]) >= n => (Covered(p[u]) => Covered(x))
      /\ x.won + x.bought = p[u].won + p[u].bought /\ x.sold = p[u].sold
  BY DEF Account, Explained, Covered, Available
<1> QED BY <1>2, <1>3, <1>4 DEF KeepsBooks, KeepsSales, KeepsCovered

\* The release of a displaced bid; it can only make more available.
LEMMA ReleaseFacts ==
  ASSUME NEW U, NEW p \in [U -> Account], NEW u \in U, NEW n \in Nat
  PROVE  /\ KeepsBooks(U, p, Release(p, u, n))
         /\ KeepsSales(U, p, Release(p, u, n))
         /\ KeepsCovered(U, p, Release(p, u, n))
         /\ \A v \in U : Available(Release(p, u, n)[v]) >= Available(p[v])
<1> DEFINE x == [p[u] EXCEPT !.held = @ - n, !.releases = @ + n]
           q == Release(p, u, n)
<1>1. x \in Account
  <2>1. p[u].held - n \in Int /\ p[u].releases + n \in Nat
    BY ColumnTypes
  <2> QED BY <2>1, ColumnUpdates
<1>2. \A v \in U : q[v] = IF v = u THEN x ELSE p[v]
  BY DEF Release
<1>3. q \in [U -> Account]
  BY <1>1 DEF Release
<1>4. /\ Explained(p[u]) => Explained(x)
      /\ Covered(p[u]) => Covered(x)
      /\ x.won + x.bought = p[u].won + p[u].bought /\ x.sold = p[u].sold
      /\ Available(x) >= Available(p[u])
  BY DEF Account, Explained, Covered, Available
<1>5. \A v \in U : Available(p[v]) \in Int
  BY DEF Account, Available
<1>6. \A v \in U : Available(q[v]) >= Available(p[v])
  <2> SUFFICES ASSUME NEW v \in U
               PROVE  Available(q[v]) >= Available(p[v])
    OBVIOUS
  <2>1. CASE v = u
    BY <2>1, <1>2, <1>4
  <2>2. CASE v # u
    BY <2>2, <1>2, <1>5
  <2> QED BY <2>1, <2>2
<1> QED BY <1>2, <1>3, <1>4, <1>6 DEF KeepsBooks, KeepsSales, KeepsCovered

\* deposit's update of the wallet.
LEMMA CreditFacts ==
  ASSUME NEW U, NEW p \in [U -> Account], NEW u \in U, NEW n \in Nat
  PROVE  /\ KeepsBooks(U, p, CreditDeposit(p, u, n))
         /\ KeepsSales(U, p, CreditDeposit(p, u, n))
         /\ KeepsCovered(U, p, CreditDeposit(p, u, n))
<1> DEFINE x == [p[u] EXCEPT !.balance = @ + n, !.unlogged = @ + n]
           q == CreditDeposit(p, u, n)
<1>1. x \in Account
  <2>1. p[u].balance + n \in Int /\ p[u].unlogged + n \in Nat
    BY ColumnTypes
  <2> QED BY <2>1, ColumnUpdates
<1>2. \A v \in U : q[v] = IF v = u THEN x ELSE p[v]
  BY DEF CreditDeposit
<1>3. q \in [U -> Account]
  BY <1>1 DEF CreditDeposit
<1>4. /\ Explained(p[u]) => Explained(x)
      /\ Covered(p[u]) => Covered(x)
      /\ x.won + x.bought = p[u].won + p[u].bought /\ x.sold = p[u].sold
  BY DEF Account, Explained, Covered
<1> QED BY <1>2, <1>3, <1>4 DEF KeepsBooks, KeepsSales, KeepsCovered

\* deposit's row, for money that is in the wallet.
LEMMA LogFacts ==
  ASSUME NEW U, NEW p \in [U -> Account], NEW u \in U, NEW n \in Nat, p[u].unlogged >= n
  PROVE  /\ KeepsBooks(U, p, LogDeposit(p, u, n))
         /\ KeepsSales(U, p, LogDeposit(p, u, n))
         /\ KeepsCovered(U, p, LogDeposit(p, u, n))
<1> DEFINE x == [p[u] EXCEPT !.unlogged = @ - n, !.deposits = @ + n]
           q == LogDeposit(p, u, n)
<1>1. x \in Account
  <2>1. p[u].unlogged - n \in Nat /\ p[u].deposits + n \in Nat
    BY ColumnTypes
  <2> QED BY <2>1, RowUpdate
<1>2. \A v \in U : q[v] = IF v = u THEN x ELSE p[v]
  BY DEF LogDeposit
<1>3. q \in [U -> Account]
  BY <1>1 DEF LogDeposit
<1>4. /\ Explained(p[u]) => Explained(x)
      /\ Covered(p[u]) => Covered(x)
      /\ x.won + x.bought = p[u].won + p[u].bought /\ x.sold = p[u].sold
  BY DEF Account, Explained, Covered
<1> QED BY <1>2, <1>3, <1>4 DEF KeepsBooks, KeepsSales, KeepsCovered

\* withdraw: covered when the amount was available.
LEMMA DebitFacts ==
  ASSUME NEW U, NEW p \in [U -> Account], NEW u \in U, NEW n \in Nat
  PROVE  /\ KeepsBooks(U, p, Debit(p, u, n))
         /\ KeepsSales(U, p, Debit(p, u, n))
         /\ Available(p[u]) >= n => KeepsCovered(U, p, Debit(p, u, n))
<1> DEFINE x == [p[u] EXCEPT !.balance = @ - n, !.withdrawals = @ + n]
           q == Debit(p, u, n)
<1>1. x \in Account
  <2>1. p[u].balance - n \in Int /\ p[u].withdrawals + n \in Nat
    BY ColumnTypes
  <2> QED BY <2>1, ColumnUpdates
<1>2. \A v \in U : q[v] = IF v = u THEN x ELSE p[v]
  BY DEF Debit
<1>3. q \in [U -> Account]
  BY <1>1 DEF Debit
<1>4. /\ Explained(p[u]) => Explained(x)
      /\ Available(p[u]) >= n => (Covered(p[u]) => Covered(x))
      /\ x.won + x.bought = p[u].won + p[u].bought /\ x.sold = p[u].sold
  BY DEF Account, Explained, Covered, Available
<1> QED BY <1>2, <1>3, <1>4 DEF KeepsBooks, KeepsSales, KeepsCovered

-----------------------------------------------------------------------------
\* The releases of a sealed auction: everyone at once.
LEMMA ReleaseAllFacts ==
  ASSUME NEW U, NEW p \in [U -> Account], NEW r \in [U -> Nat]
  PROVE  /\ KeepsBooks(U, p, ReleaseAll(p, r))
         /\ KeepsSales(U, p, ReleaseAll(p, r))
         /\ KeepsCovered(U, p, ReleaseAll(p, r))
<1> DEFINE x(u) == [p[u] EXCEPT !.held = @ - r[u], !.releases = @ + r[u]]
           q == ReleaseAll(p, r)
<1>1. ASSUME NEW u \in U PROVE x(u) \in Account
  <2>1. p[u].held - r[u] \in Int /\ p[u].releases + r[u] \in Nat
    BY ColumnTypes
  <2> QED BY <2>1, ColumnUpdates
<1>2. q = [u \in U |-> x(u)]
  BY DEF ReleaseAll
<1>3. q \in [U -> Account]
  BY <1>1, <1>2
<1>4. ASSUME NEW u \in U
      PROVE  /\ Explained(p[u]) => Explained(x(u))
             /\ Covered(p[u]) => Covered(x(u))
             /\ x(u).won + x(u).bought = p[u].won + p[u].bought /\ x(u).sold = p[u].sold
  BY DEF Account, Explained, Covered
<1> QED BY <1>2, <1>3, <1>4 DEF KeepsBooks, KeepsSales, KeepsCovered

\* cancelAuction's refunds: balance and hold change, a cover can only improve.
LEMMA RefundAllFacts ==
  ASSUME NEW U, NEW p \in [U -> Account], NEW r \in [U -> Nat]
  PROVE  /\ KeepsBooks(U, p, RefundAll(p, r))
         /\ KeepsSales(U, p, RefundAll(p, r))
         /\ KeepsCovered(U, p, RefundAll(p, r))
<1> DEFINE x(u) == [p[u] EXCEPT !.balance = @ + r[u], !.held = @ - r[u], !.refunds = @ + r[u]]
           q == RefundAll(p, r)
<1>1. ASSUME NEW u \in U PROVE x(u) \in Account
  <2>1. p[u].balance + r[u] \in Int /\ p[u].held - r[u] \in Int /\ p[u].refunds + r[u] \in Nat
    BY ColumnTypes
  <2> QED BY <2>1, ColumnUpdates
<1>2. q = [u \in U |-> x(u)]
  BY DEF RefundAll
<1>3. q \in [U -> Account]
  BY <1>1, <1>2
<1>4. ASSUME NEW u \in U
      PROVE  /\ Explained(p[u]) => Explained(x(u))
             /\ Covered(p[u]) => Covered(x(u))
             /\ x(u).won + x(u).bought = p[u].won + p[u].bought /\ x(u).sold = p[u].sold
  BY DEF Account, Explained, Covered
<1> QED BY <1>2, <1>3, <1>4 DEF KeepsBooks, KeepsSales, KeepsCovered

-----------------------------------------------------------------------------
\* The seller's half of a sale.
LEMMA EarnFacts ==
  ASSUME NEW U, NEW p \in [U -> Account], NEW u \in U, NEW n \in Nat
  PROVE  /\ KeepsBooks(U, p, Earn(p, u, n))
         /\ KeepsCovered(U, p, Earn(p, u, n))
         /\ \A v \in U : /\ Earn(p, u, n)[v].won = p[v].won
                         /\ Earn(p, u, n)[v].bought = p[v].bought
                         /\ Earn(p, u, n)[v].sold = p[v].sold + (IF v = u THEN n ELSE 0)
<1> DEFINE x == [p[u] EXCEPT !.balance = @ + n, !.sold = @ + n]
           q == Earn(p, u, n)
<1>1. x \in Account
  <2>1. p[u].balance + n \in Int /\ p[u].sold + n \in Nat
    BY ColumnTypes
  <2> QED BY <2>1, ColumnUpdates
<1>2. \A v \in U : q[v] = IF v = u THEN x ELSE p[v]
  BY DEF Earn
<1>3. q \in [U -> Account]
  BY <1>1 DEF Earn
<1>4. /\ Explained(p[u]) => Explained(x)
      /\ Covered(p[u]) => Covered(x)
      /\ x.won = p[u].won /\ x.bought = p[u].bought /\ x.sold = p[u].sold + n
  BY DEF Account, Explained, Covered
<1>5. \A v \in U : p[v].sold + 0 = p[v].sold
  BY ColumnTypes
<1> QED BY <1>2, <1>3, <1>4, <1>5 DEF KeepsBooks, KeepsCovered

\* A won auction is paid: the payer's balance and hold go down together.
LEMMA PayWonFacts ==
  ASSUME NEW U, NEW p \in [U -> Account], NEW u \in U, NEW s \in U, NEW n \in Nat
  PROVE  /\ KeepsBooks(U, p, PayWon(p, u, s, n))
         /\ KeepsCovered(U, p, PayWon(p, u, s, n))
         /\ ShowsSale(U, p, PayWon(p, u, s, n), u, s, n)
<1> DEFINE x == [p[u] EXCEPT !.balance = @ - n, !.held = @ - n, !.won = @ + n]
           m == [p EXCEPT ![u] = x]
           q == PayWon(p, u, s, n)
<1>1. x \in Account
  <2>1. p[u].balance - n \in Int /\ p[u].held - n \in Int /\ p[u].won + n \in Nat
    BY ColumnTypes
  <2> QED BY <2>1, ColumnUpdates
<1>2. m \in [U -> Account] /\ \A v \in U : m[v] = IF v = u THEN x ELSE p[v]
  BY <1>1
<1>3. q = Earn(m, s, n)
  BY DEF PayWon
<1>4. /\ Explained(p[u]) => Explained(x)
      /\ Covered(p[u]) => Covered(x)
      /\ x.won + x.bought = p[u].won + p[u].bought + n /\ x.sold = p[u].sold
  BY DEF Account, Explained, Covered
<1> HIDE DEF x, m, q
<1>5. /\ KeepsBooks(U, m, q)
      /\ KeepsCovered(U, m, q)
      /\ \A v \in U : /\ q[v].won = m[v].won
                      /\ q[v].bought = m[v].bought
                      /\ q[v].sold = m[v].sold + (IF v = s THEN n ELSE 0)
  BY <1>2, <1>3, EarnFacts
<1>6. \A v \in U : p[v].won + p[v].bought + 0 = p[v].won + p[v].bought
  BY ColumnTypes
<1>7. KeepsBooks(U, p, q)
  BY <1>2, <1>4, <1>5 DEF KeepsBooks
<1>8. KeepsCovered(U, p, q)
  BY <1>2, <1>4, <1>5 DEF KeepsCovered
<1>9. ShowsSale(U, p, q, u, s, n)
  BY <1>2, <1>4, <1>5, <1>6 DEF ShowsSale
<1> QED BY <1>7, <1>8, <1>9 DEF q

\* A direct sale is paid from the balance: the cover counts what was bought.
LEMMA PayDirectFacts ==
  ASSUME NEW U, NEW p \in [U -> Account], NEW u \in U, NEW s \in U, NEW n \in Nat
  PROVE  /\ KeepsBooks(U, p, PayDirect(p, u, s, n))
         /\ KeepsCovered(U, p, PayDirect(p, u, s, n))
         /\ ShowsSale(U, p, PayDirect(p, u, s, n), u, s, n)
<1> DEFINE x == [p[u] EXCEPT !.balance = @ - n, !.bought = @ + n]
           m == [p EXCEPT ![u] = x]
           q == PayDirect(p, u, s, n)
<1>1. x \in Account
  <2>1. p[u].balance - n \in Int /\ p[u].bought + n \in Nat
    BY ColumnTypes
  <2> QED BY <2>1, ColumnUpdates
<1>2. m \in [U -> Account] /\ \A v \in U : m[v] = IF v = u THEN x ELSE p[v]
  BY <1>1
<1>3. q = Earn(m, s, n)
  BY DEF PayDirect
<1>4. /\ Explained(p[u]) => Explained(x)
      /\ Covered(p[u]) => Covered(x)
      /\ x.won + x.bought = p[u].won + p[u].bought + n /\ x.sold = p[u].sold
  BY DEF Account, Explained, Covered
<1> HIDE DEF x, m, q
<1>5. /\ KeepsBooks(U, m, q)
      /\ KeepsCovered(U, m, q)
      /\ \A v \in U : /\ q[v].won = m[v].won
                      /\ q[v].bought = m[v].bought
                      /\ q[v].sold = m[v].sold + (IF v = s THEN n ELSE 0)
  BY <1>2, <1>3, EarnFacts
<1>6. \A v \in U : p[v].won + p[v].bought + 0 = p[v].won + p[v].bought
  BY ColumnTypes
<1>7. KeepsBooks(U, p, q)
  BY <1>2, <1>4, <1>5 DEF KeepsBooks
<1>8. KeepsCovered(U, p, q)
  BY <1>2, <1>4, <1>5 DEF KeepsCovered
<1>9. ShowsSale(U, p, q, u, s, n)
  BY <1>2, <1>4, <1>5, <1>6 DEF ShowsSale
<1> QED BY <1>7, <1>8, <1>9 DEF q

-----------------------------------------------------------------------------
(* What each movement does to holds and refunds                            *)

\* The movements on one wallet.
LEMMA WalletHolds ==
  ASSUME NEW U, NEW p \in [U -> Account], NEW u \in U, NEW n \in Nat, NEW v \in U
  PROVE  /\ Hold(p, u, n)[v].held = p[v].held + (IF v = u THEN n ELSE 0)
         /\ Release(p, u, n)[v].held = p[v].held - (IF v = u THEN n ELSE 0)
         /\ CreditDeposit(p, u, n)[v].held = p[v].held
         /\ LogDeposit(p, u, n)[v].held = p[v].held
         /\ Debit(p, u, n)[v].held = p[v].held
         /\ Earn(p, u, n)[v].held = p[v].held
         /\ Hold(p, u, n)[v].refunds = p[v].refunds
         /\ Release(p, u, n)[v].refunds = p[v].refunds
         /\ CreditDeposit(p, u, n)[v].refunds = p[v].refunds
         /\ LogDeposit(p, u, n)[v].refunds = p[v].refunds
         /\ Debit(p, u, n)[v].refunds = p[v].refunds
         /\ Earn(p, u, n)[v].refunds = p[v].refunds
<1>1. p[v] \in Account /\ p[u] \in Account
  OBVIOUS
<1>2. p[v].held \in Int
  BY <1>1, ColumnTypes
<1>3. CASE v = u
  BY <1>1, <1>2, <1>3 DEF Account, Hold, Release, CreditDeposit, LogDeposit, Debit, Earn
<1>4. CASE v # u
  BY <1>1, <1>2, <1>4 DEF Hold, Release, CreditDeposit, LogDeposit, Debit, Earn
<1> QED BY <1>3, <1>4

\* A won auction is paid from the hold of its payer, a direct sale from no hold.
LEMMA SaleHolds ==
  ASSUME NEW U, NEW p \in [U -> Account], NEW u \in U, NEW s \in U, NEW n \in Nat, NEW v \in U
  PROVE  /\ PayWon(p, u, s, n)[v].held = p[v].held - (IF v = u THEN n ELSE 0)
         /\ PayDirect(p, u, s, n)[v].held = p[v].held
         /\ PayWon(p, u, s, n)[v].refunds = p[v].refunds
         /\ PayDirect(p, u, s, n)[v].refunds = p[v].refunds
<1> DEFINE x == [p[u] EXCEPT !.balance = @ - n, !.held = @ - n, !.won = @ + n]
           y == [p[u] EXCEPT !.balance = @ - n, !.bought = @ + n]
<1>1. /\ p[u].balance - n \in Int /\ p[u].held - n \in Int
      /\ p[u].won + n \in Nat /\ p[u].bought + n \in Nat
  BY ColumnTypes
<1>2. x \in Account /\ y \in Account
  BY <1>1, ColumnUpdates
<1>3. /\ x.held = p[u].held - n /\ x.refunds = p[u].refunds
      /\ y.held = p[u].held /\ y.refunds = p[u].refunds
  BY DEF Account
<1>4. p[v].held \in Int
  BY ColumnTypes
<1> HIDE DEF x, y
<1> DEFINE m == [p EXCEPT ![u] = x]
           d == [p EXCEPT ![u] = y]
<1>5. m \in [U -> Account] /\ d \in [U -> Account]
  BY <1>2
<1>6. /\ m[v].held = p[v].held - (IF v = u THEN n ELSE 0) /\ m[v].refunds = p[v].refunds
      /\ d[v].held = p[v].held /\ d[v].refunds = p[v].refunds
  BY <1>3, <1>4
<1>7. PayWon(p, u, s, n) = Earn(m, s, n) /\ PayDirect(p, u, s, n) = Earn(d, s, n)
  BY DEF PayWon, PayDirect, x, y
<1> HIDE DEF m, d
<1>8. /\ Earn(m, s, n)[v].held = m[v].held /\ Earn(m, s, n)[v].refunds = m[v].refunds
      /\ Earn(d, s, n)[v].held = d[v].held /\ Earn(d, s, n)[v].refunds = d[v].refunds
  BY <1>5, WalletHolds
<1> QED BY <1>6, <1>7, <1>8

\* The movements on all wallets at once.
LEMMA BulkHolds ==
  ASSUME NEW U, NEW p \in [U -> Account], NEW r \in [U -> Nat], NEW v \in U
  PROVE  /\ ReleaseAll(p, r)[v].held = p[v].held - r[v]
         /\ RefundAll(p, r)[v].held = p[v].held - r[v]
         /\ ReleaseAll(p, r)[v].refunds = p[v].refunds
         /\ RefundAll(p, r)[v].refunds = p[v].refunds + r[v]
<1>1. p[v] \in Account
  OBVIOUS
<1> QED BY <1>1 DEF Account, ReleaseAll, RefundAll

-----------------------------------------------------------------------------
(* Sums over a finite set, as Functions!SumFunctionOnSet computes them: a  *)
(* table over the subsets of the set, filled one element at a time.        *)

Pick(s) == CHOOSE x \in s : TRUE
Stage(S, n) == {s \in SUBSET S : Cardinality(s) <= n}
IsTable(f, D, g) == g = [s \in D |-> IF s = {} THEN 0 ELSE f[Pick(s)] + g[s \ {Pick(s)}]]
Table(f, S) == CHOOSE g : IsTable(f, SUBSET S, g)

\* A set of naturals that is not empty has a least element.
LEMMA LeastNumber ==
  ASSUME NEW S, S \subseteq Nat, S # {}
  PROVE  \E x \in S : \A y \in S : x <= y
<1>1. PICK x \in S : \A y \in S : ~ (<<y, x>> \in OpToRel(<, Nat))
  BY NatLessThanWellFounded, WFMin
<1>2. \A y \in S : ~ (y < x)
  BY <1>1 DEF OpToRel
<1> QED BY <1>2

\* A family of subsets of a finite set that is not empty has a member none of whose
\* other subsets is in it: the minimal counterexample of the proofs below.
LEMMA SmallestSet ==
  ASSUME NEW S, IsFiniteSet(S), NEW Bad \in SUBSET (SUBSET S), Bad # {}
  PROVE  \E T \in Bad : \A U \in SUBSET T : U # T => U \notin Bad
<1>1. PICK T \in Bad : \A U \in Bad : ~ (<<U, T>> \in StrictSubsetOrdering(S))
  <2>1. Bad \subseteq FiniteSubsetsOf(S)
    BY FS_Subset DEF FiniteSubsetsOf
  <2> QED BY <2>1, FS_StrictSubsetOrderingWellFounded, WFMin
<1> QED BY <1>1 DEF StrictSubsetOrdering

\* The sum of f over S is the entry at S of a table that its recursion fills.
LEMMA Unfolds == ASSUME NEW f, NEW S PROVE SumFunctionOnSet(f, S) = Table(f, S)[S]
  BY DEF SumFunctionOnSet, FoldFunctionOnSet, MapThenFoldSet, Table, IsTable, Pick

\* The table can be filled for the subsets of up to n elements,
LEMMA Tables ==
  ASSUME NEW f, NEW S, IsFiniteSet(S), NEW n \in Nat
  PROVE  \E g : IsTable(f, Stage(S, n), g)
<1> DEFINE Bad == {m \in Nat : ~ \E g : IsTable(f, Stage(S, m), g)}
<1>1. SUFFICES ASSUME Bad # {} PROVE FALSE
  OBVIOUS
<1>2. PICK m \in Bad : \A k \in Bad : m <= k
  BY <1>1, LeastNumber
<1>3. CASE m = 0
  <2>1. \A s \in Stage(S, 0) : s = {}
    BY FS_Subset, FS_EmptySet, FS_CardinalityType DEF Stage
  <2>2. IsTable(f, Stage(S, 0), [s \in Stage(S, 0) |-> 0])
    BY <2>1 DEF IsTable
  <2> QED BY <1>2, <1>3, <2>2
<1>4. CASE m # 0
  <2>1. m - 1 \in Nat /\ m - 1 \notin Bad
    BY <1>2, <1>4
  <2>2. PICK g : IsTable(f, Stage(S, m - 1), g)
    BY <2>1
  <2> DEFINE h == [s \in Stage(S, m) |-> IF s = {} THEN 0 ELSE f[Pick(s)] + g[s \ {Pick(s)}]]
  <2>3. ASSUME NEW s \in Stage(S, m - 1)
        PROVE  s \in Stage(S, m) /\ h[s] = g[s]
    <3>1. s \in Stage(S, m)
      BY <2>1, FS_Subset, FS_CardinalityType DEF Stage
    <3> QED BY <2>2, <3>1 DEF IsTable
  <2>4. ASSUME NEW s \in Stage(S, m), s # {}
        PROVE  s \ {Pick(s)} \in Stage(S, m - 1)
    <3>1. Pick(s) \in s
      BY <2>4 DEF Pick
    <3>2. IsFiniteSet(s) /\ s \in SUBSET S /\ Cardinality(s) <= m
      BY <2>4, FS_Subset DEF Stage
    <3>3. Cardinality(s \ {Pick(s)}) = Cardinality(s) - 1 /\ Cardinality(s) \in Nat
      BY <3>1, <3>2, FS_RemoveElement, FS_CardinalityType
    <3> QED BY <1>2, <3>2, <3>3 DEF Stage
  <2>5. IsTable(f, Stage(S, m), h)
    <3>1. \A s \in Stage(S, m) : h[s] = IF s = {} THEN 0 ELSE f[Pick(s)] + h[s \ {Pick(s)}]
      BY <2>3, <2>4
    <3> HIDE DEF h
    <3>2. h = [s \in Stage(S, m) |-> h[s]]
      BY DEF h
    <3> QED BY <3>1, <3>2 DEF IsTable
  <2> QED BY <1>2, <2>5
<1> QED BY <1>3, <1>4

\* hence for all the subsets of a finite set,
LEMMA TableExists ==
  ASSUME NEW f, NEW S, IsFiniteSet(S)
  PROVE  IsTable(f, SUBSET S, Table(f, S))
<1>1. Cardinality(S) \in Nat
  BY FS_CardinalityType
<1>2. SUBSET S = Stage(S, Cardinality(S))
  BY FS_Subset DEF Stage
<1>3. \E g : IsTable(f, Stage(S, Cardinality(S)), g)
  BY ONLY <1>1, Tables, IsFiniteSet(S)
<1> QED BY <1>2, <1>3 DEF Table

\* and it satisfies the recursion at every one of them.
LEMMA TableIs ==
  ASSUME NEW f, NEW S, IsFiniteSet(S)
  PROVE  \A U \in SUBSET S : Table(f, S)[U] = IF U = {} THEN 0 ELSE f[Pick(U)] + Table(f, S)[U \ {Pick(U)}]
<1> DEFINE t == Table(f, S)
<1>1. IsTable(f, SUBSET S, t)
  BY TableExists
<1> HIDE DEF t
<1>2. \A U \in SUBSET S : t[U] = IF U = {} THEN 0 ELSE f[Pick(U)] + t[U \ {Pick(U)}]
  BY <1>1 DEF IsTable
<1> QED BY <1>2 DEF t

\* The tables of a set and of its subset agree.
LEMMA TablesAgree ==
  ASSUME NEW f, NEW S, IsFiniteSet(S), NEW T \in SUBSET S
  PROVE  Table(f, S)[T] = SumFunctionOnSet(f, T)
<1> DEFINE Bad == {U \in SUBSET T : Table(f, S)[U] # Table(f, T)[U]}
<1>1. IsFiniteSet(T)
  BY FS_Subset
<1>2. /\ \A U \in SUBSET S : Table(f, S)[U] = IF U = {} THEN 0 ELSE f[Pick(U)] + Table(f, S)[U \ {Pick(U)}]
      /\ \A U \in SUBSET T : Table(f, T)[U] = IF U = {} THEN 0 ELSE f[Pick(U)] + Table(f, T)[U \ {Pick(U)}]
  BY <1>1, TableIs
<1>3. SUFFICES ASSUME Bad # {} PROVE FALSE
  BY Unfolds
<1>4. PICK U \in Bad : \A V \in SUBSET U : V # U => V \notin Bad
  <2>1. Bad \in SUBSET (SUBSET T) /\ Bad # {}
    BY <1>3
  <2> HIDE DEF Bad
  <2> QED BY <1>1, <2>1, SmallestSet
<1>5. U # {}
  BY <1>2, <1>4
<1>6. Pick(U) \in U
  BY <1>5 DEF Pick
<1>7. U \ {Pick(U)} \notin Bad /\ U \ {Pick(U)} \in SUBSET T
  BY <1>4, <1>6
<1> QED BY <1>2, <1>4, <1>5, <1>7

\* The recursion that defines the sum, as an equation.
LEMMA SumPick ==
  ASSUME NEW f, NEW S, IsFiniteSet(S)
  PROVE  SumFunctionOnSet(f, S) = IF S = {} THEN 0 ELSE f[Pick(S)] + SumFunctionOnSet(f, S \ {Pick(S)})
<1>1. Table(f, S)[S] = IF S = {} THEN 0 ELSE f[Pick(S)] + Table(f, S)[S \ {Pick(S)}]
  BY TableIs
<1> QED BY <1>1, Unfolds, TablesAgree

\* Nothing adds up to 0.
LEMMA SumEmpty == ASSUME NEW f PROVE SumFunctionOnSet(f, {}) = 0
  BY SumPick, FS_EmptySet

\* A sum of integers is an integer.
LEMMA SumType ==
  ASSUME NEW f, NEW S, IsFiniteSet(S), \A x \in S : f[x] \in Int
  PROVE  SumFunctionOnSet(f, S) \in Int
<1> DEFINE Bad == {U \in SUBSET S : SumFunctionOnSet(f, U) \notin Int}
<1>1. SUFFICES ASSUME Bad # {} PROVE FALSE
  OBVIOUS
<1>2. PICK U \in Bad : \A V \in SUBSET U : V # U => V \notin Bad
  <2>1. Bad \in SUBSET (SUBSET S) /\ Bad # {}
    BY <1>1
  <2> HIDE DEF Bad
  <2> QED BY <2>1, SmallestSet
<1>3. IsFiniteSet(U)
  BY FS_Subset
<1>4. U # {}
  BY <1>2, SumEmpty
<1>5. Pick(U) \in U
  BY <1>4 DEF Pick
<1>6. SumFunctionOnSet(f, U \ {Pick(U)}) \in Int
  BY <1>2, <1>5
<1>7. SumFunctionOnSet(f, U) = f[Pick(U)] + SumFunctionOnSet(f, U \ {Pick(U)})
  BY <1>3, <1>4, SumPick
<1>8. f[Pick(U)] \in Int
  BY <1>5
<1> QED BY <1>2, <1>6, <1>7, <1>8

\* Any element can be taken out of a sum.
LEMMA SumRemove ==
  ASSUME NEW f, NEW S, IsFiniteSet(S), \A x \in S : f[x] \in Int, NEW x \in S
  PROVE  SumFunctionOnSet(f, S) = f[x] + SumFunctionOnSet(f, S \ {x})
<1> DEFINE Bad == {U \in SUBSET S : \E y \in U : SumFunctionOnSet(f, U) # f[y] + SumFunctionOnSet(f, U \ {y})}
<1>1. SUFFICES ASSUME Bad # {} PROVE FALSE
  OBVIOUS
<1>2. PICK U \in Bad : \A V \in SUBSET U : V # U => V \notin Bad
  <2>1. Bad \in SUBSET (SUBSET S) /\ Bad # {}
    BY <1>1
  <2> HIDE DEF Bad
  <2> QED BY <2>1, SmallestSet
<1>3. PICK y \in U : SumFunctionOnSet(f, U) # f[y] + SumFunctionOnSet(f, U \ {y})
  BY <1>2
<1> DEFINE c == Pick(U)
<1>4. IsFiniteSet(U) /\ U # {} /\ c \in U
  BY <1>3, FS_Subset DEF Pick
<1>5. SumFunctionOnSet(f, U) = f[c] + SumFunctionOnSet(f, U \ {c})
  BY <1>4, SumPick
<1> HIDE DEF c
<1>6. c # y
  BY <1>3, <1>5
<1>7. SumFunctionOnSet(f, U \ {c}) = f[y] + SumFunctionOnSet(f, (U \ {c}) \ {y})
  BY <1>2, <1>3, <1>4, <1>6
<1>8. SumFunctionOnSet(f, U \ {y}) = f[c] + SumFunctionOnSet(f, (U \ {y}) \ {c})
  BY <1>2, <1>3, <1>4, <1>6
<1>9. (U \ {c}) \ {y} = (U \ {y}) \ {c}
  OBVIOUS
<1>10. SumFunctionOnSet(f, (U \ {y}) \ {c}) \in Int /\ f[c] \in Int /\ f[y] \in Int
  <2>1. IsFiniteSet((U \ {y}) \ {c})
    BY <1>4, FS_RemoveElement
  <2> QED BY <2>1, <1>3, <1>4, SumType
<1> QED
  <2> DEFINE a == SumFunctionOnSet(f, (U \ {y}) \ {c})
  <2>1. SumFunctionOnSet(f, U) = f[c] + (f[y] + a) /\ SumFunctionOnSet(f, U \ {y}) = f[c] + a
    BY <1>5, <1>7, <1>8, <1>9
  <2> HIDE DEF a
  <2>2. a \in Int
    BY <1>10 DEF a
  <2> QED BY <1>3, <1>10, <2>1, <2>2


\* Only the values on the set matter.
LEMMA SumSame ==
  ASSUME NEW f, NEW g, NEW S, IsFiniteSet(S), \A x \in S : f[x] = g[x]
  PROVE  SumFunctionOnSet(f, S) = SumFunctionOnSet(g, S)
<1> DEFINE Bad == {U \in SUBSET S : SumFunctionOnSet(f, U) # SumFunctionOnSet(g, U)}
<1>1. SUFFICES ASSUME Bad # {} PROVE FALSE
  OBVIOUS
<1>3. PICK U \in Bad : \A V \in SUBSET U : V # U => V \notin Bad
  <2>1. Bad \in SUBSET (SUBSET S) /\ Bad # {}
    BY <1>1
  <2> HIDE DEF Bad
  <2> QED BY <2>1, SmallestSet
<1>4. IsFiniteSet(U) /\ U # {}
  BY <1>3, FS_Subset, SumEmpty
<1>5. Pick(U) \in U
  BY <1>4 DEF Pick
<1>6. SumFunctionOnSet(f, U \ {Pick(U)}) = SumFunctionOnSet(g, U \ {Pick(U)})
  BY <1>3, <1>5
<1>7. /\ SumFunctionOnSet(f, U) = f[Pick(U)] + SumFunctionOnSet(f, U \ {Pick(U)})
      /\ SumFunctionOnSet(g, U) = g[Pick(U)] + SumFunctionOnSet(g, U \ {Pick(U)})
  BY <1>4, SumPick
<1> QED BY <1>3, <1>5, <1>6, <1>7

\* A change of one value changes the sum by as much.
LEMMA SumChange ==
  ASSUME NEW f, NEW g, NEW S, IsFiniteSet(S), NEW x \in S,
         \A y \in S : f[y] \in Int /\ g[y] \in Int,
         \A y \in S \ {x} : g[y] = f[y]
  PROVE  SumFunctionOnSet(g, S) = SumFunctionOnSet(f, S) + (g[x] - f[x])
<1>1. /\ SumFunctionOnSet(f, S) = f[x] + SumFunctionOnSet(f, S \ {x})
      /\ SumFunctionOnSet(g, S) = g[x] + SumFunctionOnSet(g, S \ {x})
  BY SumRemove
<1>2. IsFiniteSet(S \ {x})
  BY FS_RemoveElement
<1>3. SumFunctionOnSet(f, S \ {x}) = SumFunctionOnSet(g, S \ {x})
  BY <1>2, SumSame
<1>4. SumFunctionOnSet(f, S \ {x}) \in Int
  BY <1>2, SumType
<1> QED BY <1>1, <1>3, <1>4

\* A sum of naturals is a natural.
LEMMA SumNat ==
  ASSUME NEW f, NEW S, IsFiniteSet(S), \A x \in S : f[x] \in Nat
  PROVE  SumFunctionOnSet(f, S) \in Nat
<1> DEFINE Bad == {U \in SUBSET S : SumFunctionOnSet(f, U) \notin Nat}
<1>1. SUFFICES ASSUME Bad # {} PROVE FALSE
  OBVIOUS
<1>3. PICK U \in Bad : \A V \in SUBSET U : V # U => V \notin Bad
  <2>1. Bad \in SUBSET (SUBSET S) /\ Bad # {}
    BY <1>1
  <2> HIDE DEF Bad
  <2> QED BY <2>1, SmallestSet
<1>4. IsFiniteSet(U) /\ U # {}
  <2>1. SumFunctionOnSet(f, {}) = 0
    BY SumEmpty
  <2>2. U # {}
    BY <1>3, <2>1
  <2> QED BY <1>3, <2>2, FS_Subset
<1>5. Pick(U) \in U
  BY <1>4 DEF Pick
<1>6. SumFunctionOnSet(f, U \ {Pick(U)}) \in Nat /\ f[Pick(U)] \in Nat
  BY <1>3, <1>5
<1>7. SumFunctionOnSet(f, U) = f[Pick(U)] + SumFunctionOnSet(f, U \ {Pick(U)})
  BY <1>4, SumPick
<1> QED BY <1>3, <1>6, <1>7

\* The sum of the sums of two columns.
LEMMA SumAdd ==
  ASSUME NEW f, NEW g, NEW h, NEW S, IsFiniteSet(S),
         \A x \in S : f[x] \in Int /\ g[x] \in Int /\ h[x] = f[x] + g[x]
  PROVE  SumFunctionOnSet(h, S) = SumFunctionOnSet(f, S) + SumFunctionOnSet(g, S)
<1> DEFINE Bad == {U \in SUBSET S :
                     SumFunctionOnSet(h, U) # SumFunctionOnSet(f, U) + SumFunctionOnSet(g, U)}
<1>1. SUFFICES ASSUME Bad # {} PROVE FALSE
  OBVIOUS
<1>3. PICK U \in Bad : \A V \in SUBSET U : V # U => V \notin Bad
  <2>1. Bad \in SUBSET (SUBSET S) /\ Bad # {}
    BY <1>1
  <2> HIDE DEF Bad
  <2> QED BY <2>1, SmallestSet
<1>4. IsFiniteSet(U) /\ U # {}
  <2>1. /\ SumFunctionOnSet(f, {}) = 0
        /\ SumFunctionOnSet(g, {}) = 0
        /\ SumFunctionOnSet(h, {}) = 0
    BY SumEmpty
  <2>2. U # {}
    <3>1. SUFFICES ASSUME U = {} PROVE FALSE
      OBVIOUS
    <3>2. /\ SumFunctionOnSet(f, U) = 0
          /\ SumFunctionOnSet(g, U) = 0
          /\ SumFunctionOnSet(h, U) = 0
      BY <2>1, <3>1, Zenon
    <3> QED BY <1>3, <3>2
  <2> QED BY <1>3, <2>2, FS_Subset
<1> DEFINE p == Pick(U)
           V == U \ {p}
<1>5. p \in U
  BY <1>4 DEF Pick
<1>6. IsFiniteSet(V) /\ V \in SUBSET S /\ V \notin Bad
  BY <1>3, <1>4, <1>5, FS_RemoveElement
<1>7. /\ SumFunctionOnSet(f, U) = f[p] + SumFunctionOnSet(f, V)
      /\ SumFunctionOnSet(g, U) = g[p] + SumFunctionOnSet(g, V)
      /\ SumFunctionOnSet(h, U) = h[p] + SumFunctionOnSet(h, V)
  BY <1>4, SumPick
<1>8. SumFunctionOnSet(f, V) \in Int /\ SumFunctionOnSet(g, V) \in Int
  BY <1>6, SumType
<1>9. SumFunctionOnSet(h, V) = SumFunctionOnSet(f, V) + SumFunctionOnSet(g, V)
  BY <1>6
<1>10. f[p] \in Int /\ g[p] \in Int /\ h[p] = f[p] + g[p]
  BY <1>5
<1> HIDE DEF p, V
<1>11. SumFunctionOnSet(h, U) # SumFunctionOnSet(f, U) + SumFunctionOnSet(g, U)
  BY <1>3
<1> QED BY <1>7, <1>8, <1>9, <1>10, <1>11

\* A sum over a set is the sum over a part and over the rest.
LEMMA SumSplit ==
  ASSUME NEW f, NEW S, IsFiniteSet(S), \A x \in S : f[x] \in Int, NEW T \in SUBSET S
  PROVE  SumFunctionOnSet(f, S) = SumFunctionOnSet(f, T) + SumFunctionOnSet(f, S \ T)
<1> DEFINE Bad == {U \in SUBSET S :
       SumFunctionOnSet(f, U) # SumFunctionOnSet(f, U \cap T) + SumFunctionOnSet(f, U \ T)}
<1>1. S \notin Bad
  <2>1. SUFFICES ASSUME Bad # {} PROVE FALSE
    OBVIOUS
  <2>3. PICK U \in Bad : \A V \in SUBSET U : V # U => V \notin Bad
    <3>1. Bad \in SUBSET (SUBSET S) /\ Bad # {}
      BY <2>1
    <3> HIDE DEF Bad
    <3> QED BY <3>1, SmallestSet
  <2>4. IsFiniteSet(U)
    BY <2>3, FS_Subset
  <2>5. U # {}
    <3>1. SUFFICES ASSUME U = {} PROVE FALSE
      OBVIOUS
    <3>2. U \cap T = {} /\ U \ T = {}
      BY <3>1
    <3> QED BY <2>3, <3>1, <3>2, SumEmpty
  <2> DEFINE p == Pick(U)
             V == U \ {p}
  <2>6. p \in U
    BY <2>5 DEF Pick
  <2>7. IsFiniteSet(V) /\ V \in SUBSET S /\ V \notin Bad
    BY <2>3, <2>4, <2>6, FS_RemoveElement
  <2>8. IsFiniteSet(U \cap T) /\ IsFiniteSet(U \ T) /\ IsFiniteSet(V \cap T) /\ IsFiniteSet(V \ T)
    BY <2>4, <2>7, FS_Subset
  <2>9. SumFunctionOnSet(f, U) = f[p] + SumFunctionOnSet(f, V)
    BY <2>4, <2>5, SumPick
  <2>10. /\ SumFunctionOnSet(f, V \cap T) \in Int /\ SumFunctionOnSet(f, V \ T) \in Int
         /\ f[p] \in Int
    BY <2>3, <2>6, <2>7, <2>8, SumType
  <2>11. SumFunctionOnSet(f, V) = SumFunctionOnSet(f, V \cap T) + SumFunctionOnSet(f, V \ T)
    BY <2>7
  <2>14. SumFunctionOnSet(f, U) # SumFunctionOnSet(f, U \cap T) + SumFunctionOnSet(f, U \ T)
    BY <2>3
  <2> DEFINE all == SumFunctionOnSet(f, U)
             inT == SumFunctionOnSet(f, U \cap T)
             out == SumFunctionOnSet(f, U \ T)
  <2>12. CASE p \in T
    <3>1. V \cap T = (U \cap T) \ {p} /\ V \ T = U \ T /\ p \in U \cap T
      BY <2>6, <2>12
    <3>2. SumFunctionOnSet(f, U \cap T) = f[p] + SumFunctionOnSet(f, V \cap T)
      BY <2>3, <2>8, <3>1, SumRemove
    <3>3. all = f[p] + (SumFunctionOnSet(f, V \cap T) + out) /\ all # inT + out
            /\ inT = f[p] + SumFunctionOnSet(f, V \cap T) /\ out \in Int
      BY <2>9, <2>10, <2>11, <2>14, <3>1, <3>2, Zenon
    <3> DEFINE k == SumFunctionOnSet(f, V \cap T)
               n == f[p]
    <3>4. k \in Int /\ n \in Int
      BY <2>10
    <3> HIDE DEF all, inT, out, k, n
    <3> QED BY <3>3, <3>4 DEF k, n
  <2>13. CASE p \notin T
    <3>1. V \ T = (U \ T) \ {p} /\ V \cap T = U \cap T /\ p \in U \ T
      BY <2>6, <2>13
    <3>2. SumFunctionOnSet(f, U \ T) = f[p] + SumFunctionOnSet(f, V \ T)
      BY <2>3, <2>8, <3>1, SumRemove
    <3>3. all = f[p] + (inT + SumFunctionOnSet(f, V \ T)) /\ all # inT + out
            /\ out = f[p] + SumFunctionOnSet(f, V \ T) /\ inT \in Int
      BY <2>9, <2>10, <2>11, <2>14, <3>1, <3>2, Zenon
    <3> DEFINE k == SumFunctionOnSet(f, V \ T)
               n == f[p]
    <3>4. k \in Int /\ n \in Int
      BY <2>10
    <3> HIDE DEF all, inT, out, k, n
    <3> QED BY <3>3, <3>4 DEF k, n
  <2> QED BY <2>12, <2>13
<1>2. S \cap T = T
  OBVIOUS
<1> QED BY <1>1, <1>2

\* Two sums over sets that differ in one element each.
LEMMA SumExchange ==
  ASSUME NEW f, NEW g, NEW S, NEW T, IsFiniteSet(S), IsFiniteSet(T),
         \A z \in S : f[z] \in Int, \A z \in T : g[z] \in Int,
         NEW x, NEW y, S \ {x} = T \ {y}, \A z \in S \ {x} : f[z] = g[z]
  PROVE  SumFunctionOnSet(g, T) - (IF y \in T THEN g[y] ELSE 0)
           = SumFunctionOnSet(f, S) - (IF x \in S THEN f[x] ELSE 0)
<1>1. IsFiniteSet(S \ {x}) /\ SumFunctionOnSet(f, S \ {x}) \in Int
  <2>1. IsFiniteSet(S \ {x})
    BY FS_Subset
  <2> QED BY <2>1, SumType
<1>2. SumFunctionOnSet(f, S) - (IF x \in S THEN f[x] ELSE 0) = SumFunctionOnSet(f, S \ {x})
  <2>1. CASE x \in S
    <3>1. SumFunctionOnSet(f, S) = f[x] + SumFunctionOnSet(f, S \ {x}) /\ f[x] \in Int
      BY <2>1, SumRemove
    <3> QED BY <1>1, <2>1, <3>1
  <2>2. CASE x \notin S
    <3>1. S \ {x} = S
      BY <2>2
    <3>2. SumFunctionOnSet(f, S \ {x}) = SumFunctionOnSet(f, S)
      BY <3>1, Zenon
    <3> QED BY <1>1, <2>2, <3>2
  <2> QED BY <2>1, <2>2
<1>3. SumFunctionOnSet(g, T \ {y}) = SumFunctionOnSet(f, S \ {x})
  <2>1. SumFunctionOnSet(f, S \ {x}) = SumFunctionOnSet(g, S \ {x})
    BY <1>1, SumSame
  <2> QED BY <2>1
<1>4. SumFunctionOnSet(g, T) - (IF y \in T THEN g[y] ELSE 0) = SumFunctionOnSet(g, T \ {y})
  <2>1. CASE y \in T
    <3>1. SumFunctionOnSet(g, T) = g[y] + SumFunctionOnSet(g, T \ {y}) /\ g[y] \in Int
      BY <2>1, SumRemove
    <3> QED BY <1>1, <1>3, <2>1, <3>1
  <2>2. CASE y \notin T
    <3>1. T \ {y} = T
      BY <2>2
    <3>2. SumFunctionOnSet(g, T \ {y}) = SumFunctionOnSet(g, T)
      BY <3>1, Zenon
    <3> QED BY <1>1, <1>3, <2>2, <3>2
  <2> QED BY <2>1, <2>2
<1> QED BY <1>2, <1>3, <1>4

\* A sum of naturals is no less than each of them.
LEMMA SumAtLeast ==
  ASSUME NEW f, NEW S, IsFiniteSet(S), \A x \in S : f[x] \in Nat, NEW x \in S
  PROVE  SumFunctionOnSet(f, S) \in Nat /\ SumFunctionOnSet(f, S) >= f[x]
<1>1. SumFunctionOnSet(f, S) = f[x] + SumFunctionOnSet(f, S \ {x})
  BY SumRemove
<1>2. IsFiniteSet(S \ {x})
  BY FS_Subset
<1>3. SumFunctionOnSet(f, S \ {x}) \in Nat
  BY <1>2, SumNat
<1> QED BY <1>1, <1>3

-----------------------------------------------------------------------------
(* Bid rows                                                                *)

\* A function on the positions of a sequence is a sequence of the same length.
LEMMA SamePositions ==
  ASSUME NEW S, NEW s \in Seq(S), NEW f \in [DOMAIN s -> S]
  PROVE  f \in Seq(S) /\ Len(f) = Len(s) /\ DOMAIN f = DOMAIN s
<1>1. Len(s) \in Nat /\ DOMAIN s = 1 .. Len(s)
  BY LenProperties
<1>2. f \in Seq(S)
  <2>1. f \in [1 .. Len(s) -> S]
    BY <1>1
  <2> QED BY <1>1, <2>1, SeqDef
<1>3. Len(f) \in Nat /\ DOMAIN f = 1 .. Len(f)
  BY <1>2, LenProperties
<1> QED BY <1>1, <1>2, <1>3

\* What the types say of the bid rows of one auction.
LEMMA BidRows ==
  ASSUME TypeOK, NEW a \in Auctions
  PROVE  /\ bids[a] \in Seq(Bid)
         /\ Len(bids[a]) \in Nat
         /\ DOMAIN bids[a] = 1 .. Len(bids[a])
         /\ \A i \in DOMAIN bids[a] :
              /\ bids[a][i] \in Bid
              /\ bids[a][i].bidder \in Users
              /\ bids[a][i].amount \in Nat \ {0}
              /\ bids[a][i].status \in BidStatuses
              /\ bids[a][i].refunded \in BOOLEAN
<1>1. bids[a] \in Seq(Bid)
  BY DEF TypeOK
<1>2. Len(bids[a]) \in Nat /\ DOMAIN bids[a] = 1 .. Len(bids[a])
  BY <1>1, LenProperties
<1>3. \A i \in DOMAIN bids[a] : bids[a][i] \in Bid
  BY <1>1, <1>2, ElementOfSeq
<1> QED BY <1>1, <1>2, <1>3 DEF Bid

\* A bid row with another status is a bid row with that status.
LEMMA StatusFacts ==
  ASSUME NEW b \in Bid, NEW st \in BidStatuses
  PROVE  /\ [b EXCEPT !.status = st] \in Bid
         /\ [b EXCEPT !.status = st].bidder = b.bidder
         /\ [b EXCEPT !.status = st].amount = b.amount
         /\ [b EXCEPT !.status = st].refunded = b.refunded
         /\ [b EXCEPT !.status = st].status = st
BY DEF Bid

\* Marking bids changes statuses and nothing else.
LEMMA MarkFacts ==
  ASSUME TypeOK, NEW a \in Auctions, NEW S, NEW st \in BidStatuses
  PROVE  /\ Mark(a, S, st) \in Seq(Bid)
         /\ Len(Mark(a, S, st)) = Len(bids[a])
         /\ DOMAIN Mark(a, S, st) = DOMAIN bids[a]
         /\ \A i \in DOMAIN bids[a] :
              /\ Mark(a, S, st)[i].bidder = bids[a][i].bidder
              /\ Mark(a, S, st)[i].amount = bids[a][i].amount
              /\ Mark(a, S, st)[i].refunded = bids[a][i].refunded
              /\ Mark(a, S, st)[i].status = IF i \in S THEN st ELSE bids[a][i].status
<1>1. ASSUME NEW i \in DOMAIN bids[a]
      PROVE  /\ Mark(a, S, st)[i] \in Bid
             /\ Mark(a, S, st)[i].bidder = bids[a][i].bidder
             /\ Mark(a, S, st)[i].amount = bids[a][i].amount
             /\ Mark(a, S, st)[i].refunded = bids[a][i].refunded
             /\ Mark(a, S, st)[i].status = IF i \in S THEN st ELSE bids[a][i].status
  <2> DEFINE marked == [bids[a][i] EXCEPT !.status = st]
  <2>1. bids[a][i] \in Bid
    BY BidRows
  <2>2. /\ marked \in Bid
        /\ marked.bidder = bids[a][i].bidder
        /\ marked.amount = bids[a][i].amount
        /\ marked.refunded = bids[a][i].refunded
        /\ marked.status = st
    BY <2>1, StatusFacts
  <2>3. Mark(a, S, st)[i] = IF i \in S THEN marked ELSE bids[a][i]
    BY DEF Mark
  <2> HIDE DEF marked
  <2> QED BY <2>1, <2>2, <2>3
<1>2. Mark(a, S, st) \in [DOMAIN bids[a] -> Bid]
  BY <1>1 DEF Mark
<1>3. /\ Mark(a, S, st) \in Seq(Bid)
      /\ Len(Mark(a, S, st)) = Len(bids[a])
      /\ DOMAIN Mark(a, S, st) = DOMAIN bids[a]
  BY <1>2, BidRows, SamePositions
<1> QED BY <1>1, <1>3

\* A bid that placeBid appends is a row of its auction.
LEMMA NewBidTyped ==
  ASSUME NEW u \in Users, NEW amount \in Nat \ {0}, NEW st \in BidStatuses
  PROVE  NewBid(u, amount, st) \in Bid
BY DEF NewBid, Bid

-----------------------------------------------------------------------------
(* Accounts                                                                *)

\* settleWithinTx, run on accounts that the transaction has updated: either the
\* auction had settled and nothing happens, or one sale is recorded and paid.
LEMMA SettleWonFacts ==
  ASSUME TypeOK, NEW p \in [Users -> Account], NEW a \in Auctions, NEW u \in Users,
         NEW amount \in Nat, SettleWon(p, a, u, amount)
  PROVE  /\ KeepsBooks(Users, p, acct')
         /\ KeepsCovered(Users, p, acct')
         /\ settlement' \in [Auctions -> Settlement \cup {NoSettlement}]
         /\ \/ Settled(a) /\ acct' = p /\ settlement' = settlement
            \/ /\ ~Settled(a)
               /\ ShowsSale(Users, p, acct', u, Seller(a), amount)
               /\ settlement' = [settlement EXCEPT ![a] =
                     [party |-> u, amount |-> amount, kind |-> "WON_AUCTION"]]
<1>1. Seller(a) \in Users
  BY CatalogsAssumption DEF TypeOK, Seller, AuctionTerms
<1>2. CASE Settled(a)
  BY <1>2 DEF SettleWon, TypeOK, KeepsBooks, KeepsCovered
<1>3. CASE ~Settled(a)
  <2>1. acct' = PayWon(p, u, Seller(a), amount)
    BY <1>3 DEF SettleWon
  <2>2. settlement' = [settlement EXCEPT ![a] =
                     [party |-> u, amount |-> amount, kind |-> "WON_AUCTION"]]
    BY <1>3 DEF SettleWon
  <2>3. [party |-> u, amount |-> amount, kind |-> "WON_AUCTION"] \in Settlement
    BY DEF Settlement
  <2> QED BY <1>1, <1>3, <2>1, <2>2, <2>3, PayWonFacts DEF TypeOK
<1> QED BY <1>2, <1>3

\* Releasing the displaced bid makes no less available to anybody.
LEMMA AfterReleaseFacts ==
  ASSUME TypeOK, NEW a \in Auctions, NEW prev \in Displaced(a)
  PROVE  /\ KeepsBooks(Users, acct, AfterRelease(a, prev))
         /\ KeepsCovered(Users, acct, AfterRelease(a, prev))
         /\ KeepsSales(Users, acct, AfterRelease(a, prev))
         /\ \A v \in Users : Available(AfterRelease(a, prev)[v]) >= Available(acct[v])
         /\ prev # 0 => prev \in BidsWith(a, "WINNING") /\ English(a)
<1>1. acct \in [Users -> Account]
  BY DEF TypeOK
<1>2. CASE prev = 0
  <2>1. \A v \in Users : Available(acct[v]) \in Int
    BY <1>1, ColumnTypes DEF Available
  <2> QED BY <1>1, <1>2, <2>1 DEF AfterRelease, KeepsBooks, KeepsCovered, KeepsSales
<1>3. CASE prev # 0
  <2>1. prev \in BidsWith(a, "WINNING") /\ English(a)
    BY <1>3 DEF Displaced
  <2>2. bids[a][prev].bidder \in Users /\ bids[a][prev].amount \in Nat
    BY <2>1, BidRows DEF BidsWith
  <2> QED BY <1>1, <1>3, <2>1, <2>2, ReleaseFacts DEF AfterRelease
<1> QED BY <1>2, <1>3

-----------------------------------------------------------------------------
(* What a step does to the wallets and to the settlements                  *)

\* A step that sells nothing.
NoSaleStep == settlement' = settlement /\ KeepsSales(Users, acct, acct')

\* What somebody has offered for a: an amount to be submitted, that of a bid, or the
\* buy-now price.
Offered(a, amount) ==
  amount \in SaleAmounts \/ \E i \in DOMAIN bids[a] : amount = bids[a][i].amount

\* A step that sells a to u: the first for that auction, and not to its seller.
SaleStep(a, u, amount, kind) ==
  /\ a \in Auctions /\ u \in Users /\ u # Seller(a)
  /\ amount \in Nat \ {0} /\ Offered(a, amount)
  /\ kind \in {"WON_AUCTION", "DIRECT_SALE"}
  /\ ~Settled(a)
  /\ settlement' = [settlement EXCEPT ![a] = [party |-> u, amount |-> amount, kind |-> kind]]
  /\ ShowsSale(Users, acct, acct', u, Seller(a), amount)

\* The wallets stay typed, explained and covered, and at most one sale is made.
SafeForMoney ==
  /\ KeepsBooks(Users, acct, acct')
  /\ KeepsCovered(Users, acct, acct')
  /\ NoSaleStep \/ \E a, u, amount, kind : SaleStep(a, u, amount, kind)

\* A step that moves no money.
LEMMA IdleMoney ==
  ASSUME TypeOK, acct' = acct, settlement' = settlement
  PROVE  SafeForMoney
BY DEF TypeOK, SafeForMoney, NoSaleStep, KeepsBooks, KeepsCovered, KeepsSales

\* Keeping accounts explained and covered composes.
LEMMA Compose ==
  ASSUME NEW p, NEW q, NEW r, KeepsBooks(Users, p, q), KeepsCovered(Users, p, q),
         KeepsBooks(Users, q, r), KeepsCovered(Users, q, r)
  PROVE  KeepsBooks(Users, p, r) /\ KeepsCovered(Users, p, r)
BY DEF KeepsBooks, KeepsCovered

\* placeBid releases the displaced hold and takes one that was available.
LEMMA PlaceBidMoney ==
  ASSUME TypeOK, NEW u \in Users, NEW a \in Auctions, NEW amount \in BidAmounts,
         PlaceBid(u, a, amount)
  PROVE  SafeForMoney
<1>1. amount \in Nat
  BY AmountsAssumption
<1>2. PICK prev \in Displaced(a) : acct' = Hold(AfterRelease(a, prev), u, amount)
  BY DEF PlaceBid
<1> DEFINE m == AfterRelease(a, prev)
<1>3. /\ KeepsBooks(Users, acct, m)
      /\ KeepsCovered(Users, acct, m)
      /\ KeepsSales(Users, acct, m)
      /\ Available(m[u]) >= Available(acct[u])
  BY AfterReleaseFacts
<1> HIDE DEF m
<1>4. m \in [Users -> Account]
  BY <1>3 DEF KeepsBooks
<1>5. Available(m[u]) >= amount
  <2>1. Available(acct[u]) >= amount
    BY DEF PlaceBid, CanBid
  <2>2. Available(acct[u]) \in Int /\ Available(m[u]) \in Int
    BY <1>4, ColumnTypes DEF Available, TypeOK
  <2> QED BY <1>1, <1>3, <2>1, <2>2
<1>6. /\ KeepsBooks(Users, m, acct')
      /\ KeepsCovered(Users, m, acct')
      /\ KeepsSales(Users, m, acct')
  BY <1>1, <1>2, <1>4, <1>5, HoldFacts DEF m
<1>7. KeepsBooks(Users, acct, acct') /\ KeepsCovered(Users, acct, acct')
  BY <1>3, <1>6, Compose
<1>8. KeepsSales(Users, acct, acct')
  BY <1>3, <1>6 DEF KeepsSales
<1>9. settlement' = settlement
  BY DEF PlaceBid
<1> QED BY <1>7, <1>8, <1>9 DEF SafeForMoney, NoSaleStep
\* A settlement of a won auction on accounts p that the transaction has reached
\* without a sale is safe for money.
LEMMA SettleMoney ==
  ASSUME TypeOK, NEW a \in Auctions, NEW u \in Users, u # Seller(a),
         NEW amount \in Nat \ {0}, Offered(a, amount), NEW p,
         KeepsBooks(Users, acct, p), KeepsCovered(Users, acct, p), KeepsSales(Users, acct, p),
         SettleWon(p, a, u, amount)
  PROVE  SafeForMoney
<1>1. p \in [Users -> Account] /\ amount \in Nat
  BY DEF KeepsBooks
<1>2. KeepsBooks(Users, acct, acct') /\ KeepsCovered(Users, acct, acct')
  BY <1>1, SettleWonFacts, Compose
<1>3. CASE acct' = p /\ settlement' = settlement
  BY <1>2, <1>3 DEF SafeForMoney, NoSaleStep
<1>4. CASE /\ ~Settled(a)
           /\ ShowsSale(Users, p, acct', u, Seller(a), amount)
           /\ settlement' = [settlement EXCEPT ![a] =
                [party |-> u, amount |-> amount, kind |-> "WON_AUCTION"]]
  <2>1. ShowsSale(Users, acct, acct', u, Seller(a), amount)
    BY <1>4 DEF ShowsSale, KeepsSales
  <2>2. SaleStep(a, u, amount, "WON_AUCTION")
    BY <1>1, <1>4, <2>1 DEF SaleStep
  <2> QED BY <1>2, <2>2 DEF SafeForMoney
<1> QED BY <1>1, <1>3, <1>4, SettleWonFacts

\* Nothing changes from acct to acct: the transaction starts by settling.
LEMMA Unmoved ==
  ASSUME TypeOK
  PROVE  KeepsBooks(Users, acct, acct) /\ KeepsCovered(Users, acct, acct)
           /\ KeepsSales(Users, acct, acct)
BY DEF TypeOK, KeepsBooks, KeepsCovered, KeepsSales

\* A Dutch acceptance holds and settles what was available.
LEMMA AcceptDutchMoney ==
  ASSUME TypeOK, NEW u \in Users, NEW a \in Auctions, NEW amount \in BidAmounts,
         AcceptDutch(u, a, amount)
  PROVE  SafeForMoney
<1>1. u # Seller(a) /\ Available(acct[u]) >= amount
  BY DEF AcceptDutch, CanBid
<1>2. acct \in [Users -> Account] /\ amount \in Nat
  BY AmountsAssumption DEF TypeOK
<1>3. /\ KeepsBooks(Users, acct, Hold(acct, u, amount))
      /\ KeepsCovered(Users, acct, Hold(acct, u, amount))
      /\ KeepsSales(Users, acct, Hold(acct, u, amount))
  BY <1>1, <1>2, HoldFacts
<1>4. SettleWon(Hold(acct, u, amount), a, u, amount)
  BY DEF AcceptDutch
<1>5. amount \in Nat \ {0} /\ Offered(a, amount)
  BY AmountsAssumption DEF Offered, SaleAmounts
<1> QED BY <1>1, <1>3, <1>4, <1>5, SettleMoney

\* buyNow moves the price from the payer to the seller and sells an unsold auction.
LEMMA BuyNowMoney ==
  ASSUME TypeOK, NEW u \in Users, NEW a \in Auctions, BuyNow(u, a)
  PROVE  SafeForMoney
<1> DEFINE amount == terms[a].buyNowPrice
<1>1. /\ acct \in [Users -> Account] /\ Seller(a) \in Users
      /\ amount \in Nat /\ amount # 0 /\ amount \in SaleAmounts
  <2>1. terms \in Catalogs /\ terms[a] \in AuctionTerms
    BY CatalogsAssumption DEF TypeOK
  <2> QED BY <2>1 DEF TypeOK, Seller, AuctionTerms, SaleAmounts, BuyNow
<1>2. /\ u # Seller(a) /\ ~Settled(a)
      /\ acct' = PayDirect(acct, u, Seller(a), amount)
      /\ settlement' = [settlement EXCEPT ![a] =
                      [party |-> u, amount |-> amount, kind |-> "DIRECT_SALE"]]
  BY DEF BuyNow
<1> HIDE DEF amount
<1>3. /\ KeepsBooks(Users, acct, acct')
      /\ KeepsCovered(Users, acct, acct')
      /\ ShowsSale(Users, acct, acct', u, Seller(a), amount)
  BY <1>1, <1>2, PayDirectFacts
<1>4. SaleStep(a, u, amount, "DIRECT_SALE")
  BY <1>1, <1>2, <1>3 DEF SaleStep, Offered
<1> QED BY <1>3, <1>4 DEF SafeForMoney

\* What a user has in some of the bids of an auction is an amount of money.
LEMMA StakedIsMoney ==
  ASSUME TypeOK, NEW a \in Auctions, NEW S \in SUBSET DOMAIN bids[a]
  PROVE  [u \in Users |-> Staked(a, S, u)] \in [Users -> Nat]
<1> SUFFICES ASSUME NEW u \in Users
             PROVE  Staked(a, S, u) \in Nat
  OBVIOUS
<1> DEFINE f == [i \in DOMAIN bids[a] |-> bids[a][i].amount]
           T == {i \in S : bids[a][i].bidder = u}
<1>1. IsFiniteSet(T)
  <2>1. IsFiniteSet(1 .. Len(bids[a]))
    BY BidRows, FS_Interval
  <2> QED BY <2>1, BidRows, FS_Subset
<1>2. \A i \in T : f[i] \in Nat
  BY BidRows
<1> HIDE DEF f, T
<1>3. SumFunctionOnSet(f, T) \in Nat
  BY <1>1, <1>2, SumNat
<1> QED BY <1>3 DEF Staked, f, T

\* cancelAuction refunds sums of amounts; nothing is sold.
LEMMA CancelAuctionMoney ==
  ASSUME TypeOK, NEW a \in Auctions, CancelAuction(a)
  PROVE  SafeForMoney
<1>1. acct \in [Users -> Account]
  BY DEF TypeOK
<1>2. PICK refund \in [Users -> Nat] : acct' = RefundAll(acct, refund)
  BY StakedIsMoney DEF CancelAuction, BidsWith
<1>3. settlement' = settlement
  BY DEF CancelAuction
<1> QED BY <1>1, <1>2, <1>3, RefundAllFacts DEF SafeForMoney, NoSaleStep

\* A run of endAuction that is to settle knows a winner and one of the bids.
LEMMA ClosingFacts ==
  ASSUME TypeOK, NEW c \in closing
  PROVE  /\ c.auction \in Auctions
         /\ c.winner \in Users \cup {NoUser}
         /\ c.bid \in Nat
         /\ c.step \in {"refund", "settle"}
         /\ c.winner # NoUser => c.winner \in Users /\ c.bid \in DOMAIN bids[c.auction]
         /\ c.step = "settle" => c.winner # NoUser
BY DEF TypeOK, Closing

\* The refund transaction releases sums of amounts; nothing is sold.
LEMMA RefundSealedMoney ==
  ASSUME TypeOK, NEW c \in closing, RefundSealed(c)
  PROVE  SafeForMoney
<1>1. acct \in [Users -> Account]
  BY DEF TypeOK
<1> DEFINE a == c.auction
           pending == {i \in DOMAIN bids[a] : ~bids[a][i].refunded}
<1>2. PICK released \in [Users -> Nat] : acct' = ReleaseAll(acct, released)
  <2>1. PICK top : acct' = ReleaseAll(acct, [u \in Users |-> Staked(a, Losing(pending, top), u)])
    BY DEF RefundSealed
  <2>2. a \in Auctions /\ Losing(pending, top) \in SUBSET DOMAIN bids[a]
    BY ClosingFacts DEF Losing
  <2>3. [u \in Users |-> Staked(a, Losing(pending, top), u)] \in [Users -> Nat]
    BY <2>2, StakedIsMoney
  <2> QED BY <2>1, <2>3
<1>3. settlement' = settlement
  BY DEF RefundSealed
<1> QED BY <1>1, <1>2, <1>3, ReleaseAllFacts DEF SafeForMoney, NoSaleStep

\* The settle transaction pays the winner's bid to a seller who is someone else.
LEMMA SettleWinnerMoney ==
  ASSUME TypeOK, SellerOutside, NEW c \in closing, SettleWinner(c)
  PROVE  SafeForMoney
<1>1. c.auction \in Auctions /\ c.winner \in Users /\ c.bid \in DOMAIN bids[c.auction]
  BY ClosingFacts DEF SettleWinner
<1>2. /\ bids[c.auction][c.bid].amount \in Nat \ {0}
      /\ Offered(c.auction, bids[c.auction][c.bid].amount)
  BY <1>1, BidRows DEF Offered
<1>3. c.winner # Seller(c.auction)
  BY DEF SellerOutside
<1>4. SettleWon(acct, c.auction, c.winner, bids[c.auction][c.bid].amount)
  BY DEF SettleWinner
<1> QED BY <1>1, <1>2, <1>3, <1>4, Unmoved, SettleMoney

\* The winner's own confirmation pays one of its bids to a seller who is someone else.
LEMMA ConfirmWinnerPaymentMoney ==
  ASSUME TypeOK, SellerOutside, NEW u \in Users, NEW a \in Auctions,
         ConfirmWinnerPayment(u, a)
  PROVE  SafeForMoney
<1>1. PICK b \in Payable(u, a) : SettleWon(acct, a, u, bids[a][b].amount)
  BY DEF ConfirmWinnerPayment
<1>2. b \in DOMAIN bids[a] /\ bids[a][b].bidder = u
  BY <1>1 DEF Payable, TopOf, BidsWith
<1>3. bids[a][b].amount \in Nat \ {0} /\ Offered(a, bids[a][b].amount)
  BY <1>2, BidRows DEF Offered
<1>4. u # Seller(a)
  BY <1>2 DEF SellerOutside
<1> QED BY <1>1, <1>3, <1>4, Unmoved, SettleMoney

\* A deposit, its late row and a withdrawal move money of one wallet and sell nothing.
LEMMA WalletMoney ==
  ASSUME TypeOK, NEW u \in Users, NEW amount \in Transfers,
         Deposit(u, amount) \/ WriteDepositRow(u, amount) \/ Withdraw(u, amount)
  PROVE  SafeForMoney
<1>1. acct \in [Users -> Account] /\ amount \in Nat
  BY AmountsAssumption DEF TypeOK
<1>2. CASE Deposit(u, amount)
  BY <1>1, <1>2, CreditFacts DEF Deposit, SafeForMoney, NoSaleStep
<1>3. CASE WriteDepositRow(u, amount)
  BY <1>1, <1>3, LogFacts DEF WriteDepositRow, SafeForMoney, NoSaleStep
<1>4. CASE Withdraw(u, amount)
  BY <1>1, <1>4, DebitFacts DEF Withdraw, SafeForMoney, NoSaleStep
<1> QED BY <1>2, <1>3, <1>4

\* Every step of the core is safe for money.
LEMMA NextMoney ==
  ASSUME TypeOK, SellerOutside, [Next]_vars
  PROVE  SafeForMoney
<1>1. CASE UNCHANGED vars
  BY <1>1, IdleMoney DEF vars
<1>2. ASSUME NEW u \in Users, NEW a \in Auctions, NEW amount \in BidAmounts,
             PlaceBid(u, a, amount) \/ AcceptDutch(u, a, amount)
      PROVE  SafeForMoney
  BY <1>2, PlaceBidMoney, AcceptDutchMoney
<1>3. ASSUME NEW u \in Users, NEW a \in Auctions, BuyNow(u, a) \/ ConfirmWinnerPayment(u, a)
      PROVE  SafeForMoney
  BY <1>3, BuyNowMoney, ConfirmWinnerPaymentMoney
<1>4. ASSUME NEW a \in Auctions, CancelAuction(a)
      PROVE  SafeForMoney
  BY <1>4, CancelAuctionMoney
<1>5. ASSUME NEW a \in Auctions,
             \/ \E action \in Moderations : ModerateAuction(a, action)
             \/ ReadPending(a) \/ WriteActive(a) \/ EndAuction(a) \/ EndJobReturns(a) \/ Expire(a)
             \/ TakeDrop(a)
      PROVE  SafeForMoney
  BY <1>5, IdleMoney
     DEF ModerateAuction, ReadPending, WriteActive, EndAuction, EndJobReturns, Expire, TakeDrop
<1>6. ASSUME NEW c \in closing, RefundSealed(c) \/ SettleWinner(c)
      PROVE  SafeForMoney
  BY <1>6, RefundSealedMoney, SettleWinnerMoney
<1>7. ASSUME NEW c \in closing, (\E kind \in FaultKinds : Redeliver(c, kind)) \/ Abort(c)
      PROVE  SafeForMoney
  BY <1>7, IdleMoney DEF Redeliver, Abort
<1>8. ASSUME NEW u \in Users, NEW amount \in Transfers,
             Deposit(u, amount) \/ WriteDepositRow(u, amount) \/ Withdraw(u, amount)
      PROVE  SafeForMoney
  BY <1>8, WalletMoney
<1>9. ASSUME NEW d \in drops, WritePrice(d) \/ EndAtFloor(d) \/ DropFails(d)
      PROVE  SafeForMoney
  BY <1>9, IdleMoney DEF WritePrice, EndAtFloor, DropFails
<1> QED BY <1>1, <1>2, <1>3, <1>4, <1>5, <1>6, <1>7, <1>8, <1>9 DEF Next
-----------------------------------------------------------------------------
(* What a step does to the bid rows                                        *)

\* Rows are typed, are never deleted, keep their bidder and amount, and a new
\* one is not the seller's,
RowsStay ==
  /\ bids' \in [Auctions -> Seq(Bid)]
  /\ \A a \in Auctions :
       /\ DOMAIN bids[a] \subseteq DOMAIN bids'[a]
       /\ \A i \in DOMAIN bids[a] : /\ bids'[a][i].bidder = bids[a][i].bidder
                                    /\ bids'[a][i].amount = bids[a][i].amount
       /\ \A i \in DOMAIN bids'[a] \ DOMAIN bids[a] : bids'[a][i].bidder # Seller(a)

\* and is of an amount that somebody submitted.
RowsKept ==
  /\ RowsStay
  /\ \A a \in Auctions : \A i \in DOMAIN bids'[a] \ DOMAIN bids[a] :
       bids'[a][i].amount \in BidAmounts

\* Only the rows of auction a change, to s.
LEMMA RowsOfOne ==
  ASSUME TypeOK, NEW a \in Auctions, NEW s \in Seq(Bid),
         bids' = [bids EXCEPT ![a] = s],
         DOMAIN bids[a] \subseteq DOMAIN s,
         \A i \in DOMAIN bids[a] : s[i].bidder = bids[a][i].bidder /\ s[i].amount = bids[a][i].amount,
         \A i \in DOMAIN s \ DOMAIN bids[a] :
           s[i].bidder # Seller(a) /\ s[i].amount \in BidAmounts
  PROVE  RowsKept
BY DEF RowsKept, RowsStay, TypeOK

\* A step that leaves the bids alone keeps their rows.
LEMMA IdleRows ==
  ASSUME TypeOK, bids' = bids
  PROVE  RowsKept
BY DEF RowsKept, RowsStay, TypeOK

\* Marking rows keeps them.
LEMMA MarkRows ==
  ASSUME TypeOK, NEW a \in Auctions, NEW S, NEW st \in BidStatuses,
         bids' = [bids EXCEPT ![a] = Mark(a, S, st)]
  PROVE  RowsKept
<1> DEFINE s == Mark(a, S, st)
<1>1. /\ s \in Seq(Bid) /\ DOMAIN s = DOMAIN bids[a]
      /\ \A i \in DOMAIN bids[a] : s[i].bidder = bids[a][i].bidder /\ s[i].amount = bids[a][i].amount
  BY MarkFacts
<1>2. bids' = [bids EXCEPT ![a] = s]
  OBVIOUS
<1> HIDE DEF s
<1> QED BY <1>1, <1>2, RowsOfOne

\* Appending a bid to rows that keep those of a keeps them.
LEMMA AppendRows ==
  ASSUME TypeOK, NEW a \in Auctions, NEW s \in Seq(Bid), DOMAIN s = DOMAIN bids[a],
         \A i \in DOMAIN bids[a] : s[i].bidder = bids[a][i].bidder /\ s[i].amount = bids[a][i].amount,
         NEW u \in Users, u # Seller(a), NEW amount \in BidAmounts, NEW st \in BidStatuses,
         bids' = [bids EXCEPT ![a] = Append(s, NewBid(u, amount, st))]
  PROVE  RowsKept
<1> DEFINE b == NewBid(u, amount, st)
           t == Append(s, b)
<1>1. b \in Bid /\ b.bidder = u /\ b.amount = amount
  BY NewBidTyped, AmountsAssumption DEF NewBid
<1> HIDE DEF b
<1>2. Len(s) \in Nat /\ DOMAIN s = 1 .. Len(s)
  BY LenProperties
<1>3. /\ t \in Seq(Bid) /\ Len(t) = Len(s) + 1
      /\ \A i \in 1 .. Len(s) : t[i] = s[i]
      /\ t[Len(s) + 1] = b
  BY <1>1, AppendProperties
<1>4. DOMAIN t = 1 .. (Len(s) + 1)
  BY <1>3, LenProperties
<1>5. bids' = [bids EXCEPT ![a] = t]
  BY DEF b
<1> HIDE DEF t
<1>6. DOMAIN bids[a] \subseteq DOMAIN t /\ DOMAIN t \ DOMAIN bids[a] = {Len(s) + 1}
  BY <1>2, <1>4
<1>7. /\ \A i \in DOMAIN bids[a] : t[i].bidder = bids[a][i].bidder /\ t[i].amount = bids[a][i].amount
      /\ \A i \in DOMAIN t \ DOMAIN bids[a] :
           t[i].bidder # Seller(a) /\ t[i].amount \in BidAmounts
  BY <1>1, <1>2, <1>3, <1>6
<1> QED BY <1>3, <1>5, <1>6, <1>7, RowsOfOne

\* placeBid appends a well-typed row that is not of the seller.
LEMMA PlaceBidRows ==
  ASSUME TypeOK, NEW u \in Users, NEW a \in Auctions, NEW amount \in BidAmounts,
         PlaceBid(u, a, amount)
  PROVE  RowsKept
<1>1. PICK prev \in Displaced(a) :
        bids' = [bids EXCEPT ![a] = Append(Mark(a, {prev}, "OUTBID"), NewBid(u, amount, "WINNING"))]
  BY DEF PlaceBid
<1>2. u # Seller(a)
  BY DEF PlaceBid, CanBid
<1>3. "OUTBID" \in BidStatuses /\ "WINNING" \in BidStatuses
  BY DEF BidStatuses
<1> DEFINE s == Mark(a, {prev}, "OUTBID")
<1>4. /\ s \in Seq(Bid) /\ DOMAIN s = DOMAIN bids[a]
      /\ \A i \in DOMAIN bids[a] : s[i].bidder = bids[a][i].bidder /\ s[i].amount = bids[a][i].amount
  BY <1>3, MarkFacts
<1>5. bids' = [bids EXCEPT ![a] = Append(s, NewBid(u, amount, "WINNING"))]
  BY <1>1
<1> HIDE DEF s
<1> QED BY <1>2, <1>3, <1>4, <1>5, AppendRows

\* A Dutch acceptance appends a well-typed row that is not of the seller.
LEMMA AcceptDutchRows ==
  ASSUME TypeOK, NEW u \in Users, NEW a \in Auctions, NEW amount \in BidAmounts,
         AcceptDutch(u, a, amount)
  PROVE  RowsKept
<1>1. bids' = [bids EXCEPT ![a] = Append(bids[a], NewBid(u, amount, "WON"))]
  BY DEF AcceptDutch
<1>2. u # Seller(a)
  BY DEF AcceptDutch, CanBid
<1>3. "WON" \in BidStatuses
  BY DEF BidStatuses
<1> QED BY <1>1, <1>2, <1>3, BidRows, AppendRows

\* The refund transaction marks the rows it processes and adds none.
LEMMA RefundSealedRows ==
  ASSUME TypeOK, NEW c \in closing, RefundSealed(c)
  PROVE  RowsKept
<1> DEFINE a == c.auction
           pending == {i \in DOMAIN bids[a] : ~bids[a][i].refunded}
<1>1. a \in Auctions
  BY ClosingFacts
<1>2. PICK top : bids' = [bids EXCEPT ![a] =
                   [i \in DOMAIN bids[a] |->
                      IF i \notin pending THEN bids[a][i]
                      ELSE [bids[a][i] EXCEPT !.refunded = TRUE,
                                              !.status = IF i = top THEN "WON" ELSE "LOST"]]]
  BY DEF RefundSealed
<1> DEFINE row(i) == [bids[a][i] EXCEPT !.refunded = TRUE,
                                        !.status = IF i = top THEN "WON" ELSE "LOST"]
           s == [i \in DOMAIN bids[a] |-> IF i \notin pending THEN bids[a][i] ELSE row(i)]
<1>3. ASSUME NEW i \in DOMAIN bids[a]
      PROVE  /\ row(i) \in Bid
             /\ row(i).bidder = bids[a][i].bidder
             /\ row(i).amount = bids[a][i].amount
  <2>1. bids[a][i] \in Bid
    BY <1>1, BidRows
  <2>2. ASSUME NEW b \in Bid, NEW st \in BidStatuses
        PROVE  /\ [b EXCEPT !.refunded = TRUE, !.status = st] \in Bid
               /\ [b EXCEPT !.refunded = TRUE, !.status = st].bidder = b.bidder
               /\ [b EXCEPT !.refunded = TRUE, !.status = st].amount = b.amount
    BY DEF Bid
  <2>3. (IF i = top THEN "WON" ELSE "LOST") \in BidStatuses
    BY DEF BidStatuses
  <2> QED BY <2>1, <2>2, <2>3
<1>4. bids' = [bids EXCEPT ![a] = s]
  BY <1>2
<1> HIDE DEF row
<1>5. \A i \in DOMAIN bids[a] :
        s[i] \in Bid /\ s[i].bidder = bids[a][i].bidder /\ s[i].amount = bids[a][i].amount
  BY <1>1, <1>3, BidRows
<1>6. s \in Seq(Bid) /\ DOMAIN s = DOMAIN bids[a]
  <2>1. s \in [DOMAIN bids[a] -> Bid]
    BY <1>5
  <2> QED BY <1>1, <2>1, BidRows, SamePositions
<1> QED BY <1>1, <1>4, <1>5, <1>6, RowsOfOne

\* Every step of the core keeps the bid rows.
LEMMA NextRows ==
  ASSUME TypeOK, [Next]_vars
  PROVE  RowsKept
<1>1. CASE UNCHANGED vars
  BY <1>1, IdleRows DEF vars
<1>2. ASSUME NEW u \in Users, NEW a \in Auctions, NEW amount \in BidAmounts,
             PlaceBid(u, a, amount) \/ AcceptDutch(u, a, amount)
      PROVE  RowsKept
  BY <1>2, PlaceBidRows, AcceptDutchRows
<1>3. ASSUME NEW u \in Users, NEW a \in Auctions, BuyNow(u, a)
      PROVE  RowsKept
  BY <1>3, IdleRows DEF BuyNow
<1>4. ASSUME NEW u \in Users, NEW a \in Auctions, ConfirmWinnerPayment(u, a)
      PROVE  RowsKept
  BY <1>4, MarkRows DEF ConfirmWinnerPayment, BidStatuses
<1>5. ASSUME NEW a \in Auctions, CancelAuction(a)
      PROVE  RowsKept
  BY <1>5, MarkRows DEF CancelAuction, BidStatuses
<1>6. ASSUME NEW a \in Auctions,
             \/ \E action \in Moderations : ModerateAuction(a, action)
             \/ ReadPending(a) \/ WriteActive(a) \/ EndAuction(a) \/ EndJobReturns(a) \/ Expire(a)
             \/ TakeDrop(a)
      PROVE  RowsKept
  BY <1>6, IdleRows
     DEF ModerateAuction, ReadPending, WriteActive, EndAuction, EndJobReturns, Expire, TakeDrop
<1>7. ASSUME NEW c \in closing, RefundSealed(c)
      PROVE  RowsKept
  BY <1>7, RefundSealedRows
<1>8. ASSUME NEW c \in closing, SettleWinner(c)
      PROVE  RowsKept
  BY <1>8, ClosingFacts, MarkRows DEF SettleWinner, BidStatuses
<1>9. ASSUME NEW c \in closing, (\E kind \in FaultKinds : Redeliver(c, kind)) \/ Abort(c)
      PROVE  RowsKept
  BY <1>9, IdleRows DEF Redeliver, Abort
<1>10. ASSUME NEW u \in Users, NEW amount \in Transfers,
              Deposit(u, amount) \/ WriteDepositRow(u, amount) \/ Withdraw(u, amount)
      PROVE  RowsKept
  BY <1>10, IdleRows DEF Deposit, WriteDepositRow, Withdraw
<1>11. ASSUME NEW d \in drops, WritePrice(d) \/ EndAtFloor(d) \/ DropFails(d)
       PROVE  RowsKept
  BY <1>11, IdleRows DEF WritePrice, EndAtFloor, DropFails
<1> QED BY <1>1, <1>2, <1>3, <1>4, <1>5, <1>6, <1>7, <1>8, <1>9, <1>10, <1>11 DEF Next
-----------------------------------------------------------------------------
(* The inductive invariant                                                 *)

\* The columns of the auctions other than bids and settlements are typed.
ColumnsTyped ==
  /\ terms      \in Catalogs
  /\ status     \in [Auctions -> Statuses]
  /\ expired    \in [Auctions -> BOOLEAN]
  /\ price      \in [Auctions -> Nat \ {0}]
  /\ winner     \in [Auctions -> Users \cup {NoUser}]
  /\ winnerBid  \in [Auctions -> Nat]
  /\ settlement \in [Auctions -> Settlement \cup {NoSettlement}]
  /\ starting   \subseteq Auctions
  /\ drops      \subseteq Drop
  /\ endJob     \in [Auctions -> BOOLEAN]
  /\ faults     \in Nat

\* Every run of endAuction under way is typed, has a bid of its auction for its
\* winner, and the winner is not the seller.
RunSound(c) ==
  /\ c \in Closing
  /\ c.winner # NoUser => c.bid \in DOMAIN bids[c.auction]
  /\ c.step = "settle" => c.winner # NoUser
  /\ c.winner # Seller(c.auction)

\* Only Dutch auctions have drop-price jobs.
DropsAreDutch == \A d \in drops : Dutch(d.auction)

Inv == TypeOK /\ SellerOutside /\ DropsAreDutch

\* What the invariant says of a run.
LEMMA InvRuns ==
  ASSUME Inv
  PROVE  \A c \in closing : RunSound(c)
BY DEF Inv, TypeOK, SellerOutside, RunSound

\* The leading bid of an auction, if there is one, is a bid of it.
LEMMA LeadingFacts ==
  ASSUME TypeOK, NEW a \in Auctions, NEW b \in Leading(a)
  PROVE  b \in Nat /\ (b # 0 => b \in DOMAIN bids[a] /\ bids[a][b].status = "WINNING")
<1>1. b = 0 \/ b \in BidsWith(a, "WINNING")
  BY DEF Leading, TopOf
<1> QED BY <1>1, BidRows DEF BidsWith

\* Bids and acceptances write columns of the right types and touch no run.
LEMMA BiddingColumns ==
  ASSUME TypeOK, NEW u \in Users, NEW a \in Auctions, NEW amount \in BidAmounts,
         PlaceBid(u, a, amount) \/ AcceptDutch(u, a, amount)
  PROVE  ColumnsTyped' /\ closing' = closing
<1>1. amount \in Nat \ {0}
  BY AmountsAssumption
<1>2. CASE PlaceBid(u, a, amount)
  BY <1>1, <1>2 DEF PlaceBid, TypeOK, ColumnsTyped
<1>3. CASE AcceptDutch(u, a, amount)
  <2>1. settlement' \in [Auctions -> Settlement \cup {NoSettlement}]
    <3>1. SettleWon(Hold(acct, u, amount), a, u, amount)
      BY <1>3 DEF AcceptDutch
    <3>2. Hold(acct, u, amount) \in [Users -> Account]
      BY <1>1, HoldFacts DEF TypeOK, KeepsBooks
    <3> QED BY <1>1, <3>1, <3>2, SettleWonFacts
  <2>2. Len(bids[a]) + 1 \in Nat
    BY BidRows
  <2> QED BY <1>1, <1>3, <2>1, <2>2 DEF AcceptDutch, TypeOK, ColumnsTyped, Statuses
<1> QED BY <1>2, <1>3

\* buyNow writes columns of the right types and touches no run.
LEMMA BuyNowColumns ==
  ASSUME TypeOK, NEW u \in Users, NEW a \in Auctions, BuyNow(u, a)
  PROVE  ColumnsTyped' /\ closing' = closing
<1> DEFINE amount == terms[a].buyNowPrice
<1>1. amount \in Nat \ {0}
  <2>1. terms[a] \in AuctionTerms
    BY CatalogsAssumption DEF TypeOK
  <2> QED BY <2>1 DEF AuctionTerms, BuyNow
<1>2. [party |-> u, amount |-> amount, kind |-> "DIRECT_SALE"] \in Settlement
  BY <1>1 DEF Settlement
<1> QED BY <1>1, <1>2 DEF BuyNow, TypeOK, ColumnsTyped, Statuses

\* confirmWinnerPayment writes columns of the right types and touches no run.
LEMMA ConfirmColumns ==
  ASSUME TypeOK, NEW u \in Users, NEW a \in Auctions, ConfirmWinnerPayment(u, a)
  PROVE  ColumnsTyped' /\ closing' = closing
<1>1. PICK b \in Payable(u, a) : SettleWon(acct, a, u, bids[a][b].amount)
  BY DEF ConfirmWinnerPayment
<1>2. bids[a][b].amount \in Nat
  BY <1>1, BidRows DEF Payable, TopOf, BidsWith
<1>3. settlement' \in [Auctions -> Settlement \cup {NoSettlement}]
  BY <1>1, <1>2, SettleWonFacts DEF TypeOK
<1> QED BY <1>3 DEF ConfirmWinnerPayment, TypeOK, ColumnsTyped

\* The determination transaction of endAuction, which the end-auction job runs and a
\* drop-price job at the floor.
Determined(a) ==
  /\ Endable(a)
  /\ \E b \in Leading(a) : Determine(a, b)
  /\ drops' \subseteq drops /\ endJob' \in [Auctions -> BOOLEAN]
  /\ UNCHANGED <<terms, acct, expired, bids, settlement, starting, faults>>

LEMMA EndDetermines ==
  ASSUME TypeOK, NEW a \in Auctions, EndAuction(a)
  PROVE  Determined(a)
BY DEF EndAuction, Determined, TypeOK

\* A drop-price job is typed; what it does is to write its price, to end its auction,
\* or nothing but to be done.
LEMMA DropShape ==
  ASSUME TypeOK, NEW d \in drops, WritePrice(d) \/ EndAtFloor(d) \/ DropFails(d)
  PROVE  /\ d.auction \in Auctions /\ d.price \in Nat
         /\ \/ Determined(d.auction)
            \/ /\ ~AtFloor(d.auction, d.price) /\ price' = [price EXCEPT ![d.auction] = d.price]
               /\ OneScheduler => drops' = drops \ {d}
               /\ drops' \subseteq drops
               /\ UNCHANGED <<terms, acct, status, expired, winner, winnerBid, bids,
                              settlement, starting, endJob, closing, faults>>
            \/ /\ drops' \subseteq drops
               /\ UNCHANGED <<terms, acct, status, expired, price, winner, winnerBid, bids,
                              settlement, starting, endJob, closing, faults>>
<1>1. d.auction \in Auctions /\ d.price \in Nat /\ endJob \in [Auctions -> BOOLEAN]
  BY DEF TypeOK, Drop
<1>2. CASE WritePrice(d)
  BY <1>1, <1>2 DEF WritePrice, DropDone
<1>3. CASE EndAtFloor(d)
  BY <1>1, <1>3 DEF EndAtFloor, DropDone, Determined
<1>4. CASE DropFails(d)
  BY <1>1, <1>4 DEF DropFails
<1> QED BY <1>2, <1>3, <1>4

\* A drop-price job that begins reads the price that it will write.
LEMMA TakeDropTyped ==
  ASSUME TypeOK, NEW a \in Auctions, TakeDrop(a)
  PROVE  [auction |-> a, price |-> Dropped(a)] \in Drop
<1>1. terms[a].dutchPriceStep \in Nat
  <2>1. terms[a] \in AuctionTerms
    BY CatalogsAssumption DEF TypeOK
  <2> QED BY <2>1 DEF AuctionTerms
<1>2. Dropped(a) \in Nat
  BY <1>1 DEF Dropped, TypeOK
<1> QED BY <1>2 DEF Drop

\* The determination starts at most one run, and what that run will settle exists.
LEMMA EndAuctionColumns ==
  ASSUME Inv, NEW a \in Auctions, Determined(a)
  PROVE  ColumnsTyped' /\ \A c \in closing' : c \in closing \/ RunSound(c)
<1> USE DEF Inv
<1>1. PICK b \in Leading(a) : Determine(a, b)
  BY DEF Determined
<1> DEFINE w == IF b # 0 /\ MeetsReserve(a, b) THEN bids[a][b].bidder ELSE NoUser
<1>2. /\ b \in Nat
      /\ b # 0 => /\ b \in DOMAIN bids[a]
                  /\ bids[a][b].bidder \in Users
                  /\ bids[a][b].bidder # Seller(a)
                  /\ bids[a][b].amount \in Nat \ {0}
  BY <1>1, LeadingFacts, BidRows DEF SellerOutside
<1>3. Seller(a) \in Users
  BY CatalogsAssumption DEF TypeOK, Seller, AuctionTerms
<1>4. /\ w \in Users \cup {NoUser}
      /\ w # NoUser => b \in DOMAIN bids[a] /\ bids[a][b].amount \in Nat \ {0}
      /\ w # Seller(a)
  BY <1>2, <1>3, NoUserAssumption
<1>5. /\ status' = [status EXCEPT ![a] = "ENDED"]
      /\ winner' = [winner EXCEPT ![a] = w]
      /\ winnerBid' = [winnerBid EXCEPT ![a] = IF w = NoUser THEN 0 ELSE b]
      /\ price' = [price EXCEPT ![a] = IF w = NoUser THEN price[a] ELSE bids[a][b].amount]
      /\ closing' = closing \cup Remaining(a, w, b)
  BY <1>1 DEF Determine
<1> HIDE DEF w
<1>6. ColumnsTyped'
  BY <1>2, <1>4, <1>5 DEF Determined, TypeOK, ColumnsTyped, Statuses
<1>7. \A c \in Remaining(a, w, b) : RunSound(c)
  BY <1>2, <1>4 DEF Remaining, RunSound, Closing
<1> QED BY <1>5, <1>6, <1>7

\* The later transactions of a run leave sound runs behind.
LEMMA RunColumns ==
  ASSUME Inv, NEW c \in closing, RefundSealed(c) \/ SettleWinner(c)
  PROVE  ColumnsTyped' /\ \A d \in closing' : d \in closing \/ RunSound(d)
<1> USE DEF Inv
<1>1. CASE RefundSealed(c)
  <2>1. \A d \in AfterRefund(c) : RunSound(d)
    BY InvRuns DEF AfterRefund, RunSound, Closing
  <2>2. closing' = (closing \ {c}) \cup AfterRefund(c)
    BY <1>1 DEF RefundSealed
  <2>3. ColumnsTyped'
    BY <1>1 DEF RefundSealed, TypeOK, ColumnsTyped
  <2> QED BY <2>1, <2>2, <2>3
<1>2. CASE SettleWinner(c)
  <2>1. c.auction \in Auctions /\ c.winner \in Users /\ c.bid \in DOMAIN bids[c.auction]
    BY <1>2, ClosingFacts DEF SettleWinner
  <2>2. bids[c.auction][c.bid].amount \in Nat
    BY <2>1, BidRows
  <2>3. settlement' \in [Auctions -> Settlement \cup {NoSettlement}]
    BY <1>2, <2>1, <2>2, SettleWonFacts DEF SettleWinner, TypeOK
  <2> QED BY <1>2, <2>3 DEF SettleWinner, TypeOK, ColumnsTyped
<1> QED BY <1>1, <1>2

\* Every step keeps the columns typed and leaves sound runs behind.
LEMMA NextColumns ==
  ASSUME Inv, [Next]_vars
  PROVE  ColumnsTyped' /\ \A d \in closing' : d \in closing \/ RunSound(d)
<1> USE DEF Inv
<1>1. CASE UNCHANGED vars
  BY <1>1 DEF vars, TypeOK, ColumnsTyped
<1>2. ASSUME NEW u \in Users, NEW a \in Auctions, NEW amount \in BidAmounts,
             PlaceBid(u, a, amount) \/ AcceptDutch(u, a, amount)
      PROVE  ColumnsTyped' /\ closing' = closing
  BY <1>2, BiddingColumns
<1>3. ASSUME NEW u \in Users, NEW a \in Auctions, BuyNow(u, a) \/ ConfirmWinnerPayment(u, a)
      PROVE  ColumnsTyped' /\ closing' = closing
  BY <1>3, BuyNowColumns, ConfirmColumns
<1>4. ASSUME NEW a \in Auctions,
             \/ CancelAuction(a)
             \/ \E action \in Moderations : ModerateAuction(a, action)
             \/ ReadPending(a) \/ WriteActive(a) \/ EndJobReturns(a) \/ Expire(a)
      PROVE  ColumnsTyped' /\ closing' = closing
  BY <1>4 DEF CancelAuction, ModerateAuction, ReadPending, WriteActive, EndJobReturns, Expire,
              TypeOK, ColumnsTyped, Statuses
<1>5. ASSUME NEW a \in Auctions, EndAuction(a)
      PROVE  ColumnsTyped' /\ \A d \in closing' : d \in closing \/ RunSound(d)
  BY <1>5, EndDetermines, EndAuctionColumns
<1>6. ASSUME NEW c \in closing, RefundSealed(c) \/ SettleWinner(c)
      PROVE  ColumnsTyped' /\ \A d \in closing' : d \in closing \/ RunSound(d)
  BY <1>6, RunColumns
<1>7. ASSUME NEW c \in closing, (\E kind \in FaultKinds : Redeliver(c, kind)) \/ Abort(c)
      PROVE  ColumnsTyped' /\ closing' \subseteq closing
  <2>1. CASE \E kind \in FaultKinds : Redeliver(c, kind)
    <3>1. PICK kind \in FaultKinds : Redeliver(c, kind)
      BY <2>1
    <3>2. closing' \subseteq closing
      BY <3>1 DEF Redeliver
    <3>3. faults' \in Nat /\ endJob' \in [Auctions -> BOOLEAN]
      <4>1. faults' = faults + 1 /\ endJob' = [endJob EXCEPT ![c.auction] = TRUE]
        BY <3>1 DEF Redeliver
      <4>2. faults \in Nat /\ endJob \in [Auctions -> BOOLEAN]
        BY DEF TypeOK
      <4>3. faults' \in Nat
        BY <4>1, <4>2
      <4>4. endJob' \in [Auctions -> BOOLEAN]
        BY <4>1, <4>2, Zenon
      <4> QED BY <4>3, <4>4
    <3> QED BY <3>1, <3>2, <3>3 DEF Redeliver, TypeOK, ColumnsTyped
  <2>2. CASE Abort(c)
    BY <2>2 DEF Abort, TypeOK, ColumnsTyped
  <2> QED BY <1>7, <2>1, <2>2
<1>8. ASSUME NEW u \in Users, NEW amount \in Transfers,
             Deposit(u, amount) \/ WriteDepositRow(u, amount) \/ Withdraw(u, amount)
      PROVE  ColumnsTyped' /\ closing' = closing
  BY <1>8 DEF Deposit, WriteDepositRow, Withdraw, TypeOK, ColumnsTyped
<1>9. ASSUME NEW a \in Auctions, TakeDrop(a)
      PROVE  ColumnsTyped' /\ closing' = closing
  BY <1>9, TakeDropTyped DEF TakeDrop, TypeOK, ColumnsTyped
<1>10. ASSUME NEW d \in drops, WritePrice(d) \/ EndAtFloor(d) \/ DropFails(d)
       PROVE  ColumnsTyped' /\ \A c \in closing' : c \in closing \/ RunSound(c)
  <2>1. d.auction \in Auctions /\ d.price \in Nat
    BY <1>10, DropShape
  <2>2. ~AtFloor(d.auction, d.price) => d.price \in Nat \ {0}
    BY <2>1 DEF AtFloor
  <2>3. CASE Determined(d.auction)
    BY <2>1, <2>3, EndAuctionColumns
  <2>4. CASE ~Determined(d.auction)
    BY <1>10, <2>1, <2>2, <2>4, DropShape DEF TypeOK, ColumnsTyped
  <2> QED BY <2>3, <2>4
<1> QED BY <1>1, <1>2, <1>3, <1>4, <1>5, <1>6, <1>7, <1>8, <1>9, <1>10 DEF Next

\* A drop-price job under way was so before, or takes a Dutch auction now.
LEMMA NextDrops ==
  ASSUME TypeOK, [Next]_vars
  PROVE  \A d \in drops' : d \in drops \/ (d.auction \in Auctions /\ TakeDrop(d.auction))
<1>1. CASE UNCHANGED vars
  BY <1>1 DEF vars
<1>2. ASSUME NEW u \in Users, NEW a \in Auctions, NEW amount \in BidAmounts,
             PlaceBid(u, a, amount) \/ AcceptDutch(u, a, amount)
      PROVE  drops' = drops
  BY <1>2 DEF PlaceBid, AcceptDutch
<1>3. ASSUME NEW u \in Users, NEW a \in Auctions, BuyNow(u, a) \/ ConfirmWinnerPayment(u, a)
      PROVE  drops' = drops
  BY <1>3 DEF BuyNow, ConfirmWinnerPayment
<1>4. ASSUME NEW a \in Auctions,
             \/ CancelAuction(a)
             \/ \E action \in Moderations : ModerateAuction(a, action)
             \/ ReadPending(a) \/ WriteActive(a) \/ EndAuction(a) \/ EndJobReturns(a) \/ Expire(a)
      PROVE  drops' = drops
  BY <1>4 DEF CancelAuction, ModerateAuction, ReadPending, WriteActive, EndAuction,
              EndJobReturns, Expire
<1>5. ASSUME NEW c \in closing,
             \/ RefundSealed(c) \/ SettleWinner(c)
             \/ \E kind \in FaultKinds : Redeliver(c, kind)
             \/ Abort(c)
      PROVE  drops' = drops
  BY <1>5 DEF RefundSealed, SettleWinner, Redeliver, Abort
<1>6. ASSUME NEW u \in Users, NEW amount \in Transfers,
             Deposit(u, amount) \/ WriteDepositRow(u, amount) \/ Withdraw(u, amount)
      PROVE  drops' = drops
  BY <1>6 DEF Deposit, WriteDepositRow, Withdraw
<1>7. ASSUME NEW d \in drops, WritePrice(d) \/ EndAtFloor(d) \/ DropFails(d)
      PROVE  drops' \subseteq drops
  BY <1>7 DEF WritePrice, EndAtFloor, DropFails, DropDone
<1>8. ASSUME NEW a \in Auctions, TakeDrop(a)
      PROVE  \A d \in drops' : d \in drops \/ d.auction = a
  BY <1>8 DEF TakeDrop
<1> QED BY <1>1, <1>2, <1>3, <1>4, <1>5, <1>6, <1>7, <1>8 DEF Next

\* What createAuction stored stays: no step changes the terms of an auction.
LEMMA TermsFixed ==
  ASSUME [Next]_vars
  PROVE  terms' = terms
<1>1. ASSUME NEW u \in Users, NEW a \in Auctions, NEW amount \in BidAmounts,
             PlaceBid(u, a, amount) \/ AcceptDutch(u, a, amount)
      PROVE  terms' = terms
  BY <1>1 DEF PlaceBid, AcceptDutch
<1>2. ASSUME NEW u \in Users, NEW a \in Auctions, BuyNow(u, a) \/ ConfirmWinnerPayment(u, a)
      PROVE  terms' = terms
  BY <1>2 DEF BuyNow, ConfirmWinnerPayment
<1>3. ASSUME NEW a \in Auctions,
             \/ CancelAuction(a)
             \/ \E action \in Moderations : ModerateAuction(a, action)
             \/ ReadPending(a) \/ WriteActive(a) \/ EndAuction(a) \/ EndJobReturns(a) \/ Expire(a)
             \/ TakeDrop(a)
      PROVE  terms' = terms
  BY <1>3 DEF CancelAuction, ModerateAuction, ReadPending, WriteActive, EndAuction,
              EndJobReturns, Expire, TakeDrop
<1>4. ASSUME NEW c \in closing,
             \/ RefundSealed(c) \/ SettleWinner(c)
             \/ \E kind \in FaultKinds : Redeliver(c, kind)
             \/ Abort(c)
      PROVE  terms' = terms
  BY <1>4 DEF RefundSealed, SettleWinner, Redeliver, Abort
<1>5. ASSUME NEW u \in Users, NEW amount \in Transfers,
             Deposit(u, amount) \/ WriteDepositRow(u, amount) \/ Withdraw(u, amount)
      PROVE  terms' = terms
  BY <1>5 DEF Deposit, WriteDepositRow, Withdraw
<1>6. ASSUME NEW d \in drops, WritePrice(d) \/ EndAtFloor(d) \/ DropFails(d)
      PROVE  terms' = terms
  BY <1>6 DEF WritePrice, EndAtFloor, DropFails
<1> QED BY <1>1, <1>2, <1>3, <1>4, <1>5, <1>6 DEF Next, vars

\* The states right after createAuction satisfy the invariant.
LEMMA InitInv ==
  ASSUME Init
  PROVE  Inv
<1>1. \A u \in Users : Opened(Opening[u]) \in Account
  BY OpeningAssumption DEF Opened, Account
<1>2. <<>> \in Seq(Bid) /\ DOMAIN <<>> = {}
  BY EmptySeq, LenProperties
<1>3. TypeOK
  <2>1. \A a \in Auctions : terms[a].startingPrice \in Nat \ {0}
    BY CatalogsAssumption DEF Init, AuctionTerms
  <2> QED BY <1>1, <1>2, <2>1 DEF Init, TypeOK, Statuses
<1>4. SellerOutside
  BY <1>2 DEF Init, SellerOutside
<1> QED BY <1>3, <1>4 DEF Inv, Init, DropsAreDutch

\* The invariant is inductive.
LEMMA NextInv ==
  ASSUME Inv, [Next]_vars
  PROVE  Inv'
<1>1. acct' \in [Users -> Account]
  BY NextMoney DEF SafeForMoney, KeepsBooks, Inv
<1>2. RowsKept
  BY NextRows DEF Inv
<1>3. ColumnsTyped' /\ \A c \in closing' : c \in closing \/ RunSound(c)
  BY NextColumns
<1>4. terms' = terms
  BY TermsFixed
<1>5. \A c \in closing' : RunSound(c)
  BY <1>3, InvRuns
<1>6. \A c \in closing' : RunSound(c)'
  <2> SUFFICES ASSUME NEW c \in closing'
               PROVE  RunSound(c)'
    OBVIOUS
  <2>1. RunSound(c) /\ c.auction \in Auctions
    BY <1>5 DEF RunSound, Closing
  <2>2. DOMAIN bids[c.auction] \subseteq DOMAIN bids'[c.auction]
    BY <1>2, <2>1 DEF RowsKept, RowsStay
  <2> QED BY <1>4, <2>1, <2>2 DEF RunSound, Seller
<1>7. TypeOK'
  BY <1>1, <1>2, <1>3, <1>6 DEF TypeOK, ColumnsTyped, RowsKept, RowsStay, RunSound
<1>8. SellerOutside'
  <2>1. \A a \in Auctions : \A i \in DOMAIN bids'[a] : bids'[a][i].bidder # Seller(a)
    BY <1>2 DEF RowsKept, RowsStay, Inv, SellerOutside
  <2> QED BY <1>4, <1>6, <2>1 DEF SellerOutside, RunSound, Seller
<1>9. DropsAreDutch'
  BY <1>4, NextDrops DEF Inv, DropsAreDutch, TakeDrop, Dutch
<1> QED BY <1>7, <1>8, <1>9 DEF Inv

-----------------------------------------------------------------------------
(* Theorems                                                                *)

\* The rows of the tables keep their types, a run of endAuction that is to settle
\* always has a bid of its auction, and no seller bids on or wins an own auction.
THEOREM InvCorrect == Spec => []Inv
<1>1. Init => Inv
  BY InitInv
<1>2. Inv /\ [Next]_vars => Inv'
  BY NextInv
<1> QED BY <1>1, <1>2, PTL DEF Spec

\* Type correctness of the tables (schema.prisma), for any users and auctions.
THEOREM TypeCorrect == Spec => []TypeOK
<1>1. Inv => TypeOK
  BY DEF Inv
<1> QED BY <1>1, InvCorrect, PTL

\* A step that keeps the books leaves every wallet explained.
LEMMA BooksStay ==
  ASSUME SafeForMoney, LedgerExplainsWallets
  PROVE  LedgerExplainsWallets'
BY DEF SafeForMoney, KeepsBooks, Explained, LedgerExplainsWallets

\* Every wallet is explained by its transaction rows, in every reachable state.
THEOREM WalletsExplained == Spec => []LedgerExplainsWallets
<1>1. Init => LedgerExplainsWallets
  BY OpeningAssumption DEF Init, Opened, LedgerExplainsWallets
<1>2. Inv /\ LedgerExplainsWallets /\ [Next]_vars => LedgerExplainsWallets'
  BY NextMoney, BooksStay DEF Inv
<1> QED BY <1>1, <1>2, InvCorrect, PTL DEF Spec

\* The checks of placeBid and withdraw keep every hold covered, whatever the
\* interleaving with cancellations, settlements, faults and moderation.
THEOREM HoldsAreCovered == Spec => []HoldsCovered
<1>1. Init => HoldsCovered
  BY OpeningAssumption DEF Init, Opened, HoldsCovered
<1>2. Inv /\ HoldsCovered /\ [Next]_vars => HoldsCovered'
  BY NextMoney DEF SafeForMoney, KeepsCovered, Covered, HoldsCovered, Inv
<1> QED BY <1>1, <1>2, InvCorrect, PTL DEF Spec
-----------------------------------------------------------------------------
(* Conservation of money                                                   *)

\* What the users earned by sales less what they paid for them.
Net == [u \in Users |-> acct[u].sold - (acct[u].won + acct[u].bought)]

\* Nobody has sold, won or bought anything yet.
LEMMA InitNet ==
  ASSUME Init
  PROVE  SumFunctionOnSet(Net, Users) = 0
<1>1. \A u \in Users : Net[u] \in Int /\ Net[u] = Net[u] + Net[u]
  BY DEF Init, Opened, Net
<1> DEFINE total == SumFunctionOnSet(Net, Users)
<1>2. total = total + total
  BY ONLY <1>1, SumAdd, FiniteAssumption
<1>3. total \in Int
  BY <1>1, SumType, FiniteAssumption
<1> HIDE DEF total
<1>4. total = 0
  BY <1>2, <1>3
<1> QED BY <1>4 DEF total

\* A sale moves its amount from the payer to the seller; no other step counts.
LEMMA SaleNet ==
  ASSUME Inv, SafeForMoney
  PROVE  SumFunctionOnSet(Net, Users)' = SumFunctionOnSet(Net, Users)
<1>1. \A u \in Users : Net[u] \in Int /\ Net'[u] \in Int
  <2>1. acct \in [Users -> Account] /\ acct' \in [Users -> Account]
    BY DEF SafeForMoney, KeepsBooks, Inv, TypeOK
  <2> QED BY <2>1, ColumnTypes DEF Net
<1>2. CASE NoSaleStep
  <2>1. \A u \in Users : Net'[u] = Net[u]
    BY <1>2 DEF NoSaleStep, KeepsSales, Net
  <2> QED BY <2>1, SumSame, FiniteAssumption
<1>3. ASSUME NEW a, NEW u, NEW amount, NEW kind, SaleStep(a, u, amount, kind)
      PROVE  SumFunctionOnSet(Net', Users) = SumFunctionOnSet(Net, Users)
  <2>1. /\ u \in Users /\ Seller(a) \in Users /\ u # Seller(a) /\ amount \in Int
        /\ ShowsSale(Users, acct, acct', u, Seller(a), amount)
    <3>1. terms[a] \in AuctionTerms
      BY <1>3, CatalogsAssumption DEF SaleStep, Inv, TypeOK
    <3>2. amount \in Int
      BY <1>3 DEF SaleStep
    <3> QED BY <1>3, <3>1, <3>2 DEF SaleStep, Seller, AuctionTerms
  <2> DEFINE mid == [v \in Users |-> IF v = u THEN Net[v] - amount ELSE Net[v]]
  <2>2. \A v \in Users : Net'[v] = IF v = u THEN Net[v] - amount
                                   ELSE IF v = Seller(a) THEN Net[v] + amount ELSE Net[v]
    BY <2>1, ColumnTypes DEF ShowsSale, Net, Inv, TypeOK
  <2>3. \A v \in Users : mid[v] \in Int
    BY <1>1, <2>1
  <2>4. SumFunctionOnSet(mid, Users) = SumFunctionOnSet(Net, Users) + (mid[u] - Net[u])
    <3>1. \A v \in Users \ {u} : mid[v] = Net[v]
      OBVIOUS
    <3> HIDE DEF mid
    <3> QED BY ONLY <1>1, <2>1, <2>3, <3>1, SumChange, FiniteAssumption
  <2>5. SumFunctionOnSet(Net', Users) =
          SumFunctionOnSet(mid, Users) + (Net'[Seller(a)] - mid[Seller(a)])
    <3>1. \A v \in Users \ {Seller(a)} : Net'[v] = mid[v]
      BY <2>2
    <3> HIDE DEF mid
    <3> QED BY ONLY <1>1, <2>1, <2>3, <3>1, SumChange, FiniteAssumption
  <2>6. /\ mid[u] - Net[u] = 0 - amount
        /\ Net'[Seller(a)] - mid[Seller(a)] = amount
    BY <1>1, <2>1, <2>2
  <2>7. SumFunctionOnSet(Net, Users) \in Int
    BY <1>1, SumType, FiniteAssumption
  <2> HIDE DEF mid
  <2> QED BY <2>1, <2>4, <2>5, <2>6, <2>7
<1> QED BY <1>2, <1>3 DEF SafeForMoney

\* When the sales balance and the wallets are explained, money is conserved.
LEMMA BalancedMoney ==
  ASSUME Inv, LedgerExplainsWallets, SumFunctionOnSet(Net, Users) = 0
  PROVE  MoneyConserved
<1> DEFINE balances == [u \in Users |-> acct[u].balance]
           flows    == [u \in Users |-> acct[u].deposits + acct[u].unlogged + acct[u].refunds
                                          - acct[u].withdrawals]
<1>1. ASSUME NEW u \in Users
      PROVE  flows[u] \in Int /\ Net[u] \in Int /\ balances[u] = flows[u] + Net[u]
  <2> DEFINE x == acct[u]
  <2>1. /\ x.balance = x.deposits + x.unlogged - x.withdrawals + x.refunds + x.sold
                         - x.won - x.bought
        /\ flows[u] = x.deposits + x.unlogged + x.refunds - x.withdrawals
        /\ Net[u] = x.sold - (x.won + x.bought) /\ balances[u] = x.balance
    BY DEF LedgerExplainsWallets, Net
  <2>2. x \in Account
    BY DEF Inv, TypeOK
  <2> HIDE DEF x, balances, flows
  <2> QED BY <2>1, <2>2, ColumnTypes
<1>2. DOMAIN balances = Users /\ DOMAIN flows = Users
  OBVIOUS
<1> HIDE DEF balances, flows
<1>3. SumFunctionOnSet(balances, Users) = SumFunctionOnSet(flows, Users) + SumFunctionOnSet(Net, Users)
  BY ONLY <1>1, SumAdd, FiniteAssumption
<1>4. SumFunctionOnSet(flows, Users) \in Int
  BY <1>1, SumType, FiniteAssumption
<1>5. SumFunctionOnSet(balances, Users) = SumFunctionOnSet(flows, Users)
  BY <1>3, <1>4
<1>6. SumFunction(balances) = SumFunction(flows)
  BY <1>2, <1>5 DEF SumFunction
<1> QED BY <1>6 DEF MoneyConserved, balances, flows

\* Money is neither created nor lost between the wallets: what they hold together
\* is what came in less what went out, plus what cancelAuction credited.
THEOREM MoneyIsConserved == Spec => []MoneyConserved
<1> DEFINE Balanced == SumFunctionOnSet(Net, Users) = 0
<1>1. Init => Balanced
  BY InitNet
<1>2. Inv /\ Balanced /\ [Next]_vars => Balanced'
  BY NextMoney, SaleNet DEF Inv
<1>3. Inv /\ LedgerExplainsWallets /\ Balanced => MoneyConserved
  BY BalancedMoney
<1> QED BY <1>1, <1>2, <1>3, InvCorrect, WalletsExplained, PTL DEF Spec
-----------------------------------------------------------------------------
(* The escrow path implements Sale                                         *)

\* In the initial state nothing is sold, paid or earned.
LEMMA InitSale ==
  ASSUME Init
  PROVE  Ledger!SaleInit
<1>1. \A a \in Auctions : Seller(a) \in Users
  BY CatalogsAssumption DEF Init, Seller, AuctionTerms
<1>2. \A u \in Users : acct[u].won + acct[u].bought = 0 /\ acct[u].sold = 0
  BY DEF Init, Opened
<1> QED BY <1>1, <1>2 DEF Init, Ledger!SaleInit

\* Every bid is of an amount that somebody submitted.
Submitted ==
  \A a \in Auctions : \A i \in DOMAIN bids[a] : bids[a][i].amount \in BidAmounts

\* What users paid for auctions, and what they earned.
Paid   == [v \in Users |-> acct[v].won + acct[v].bought]
Earned == [v \in Users |-> acct[v].sold]

\* A sale adds its amount to what the buyer paid and to what the seller earned.
LEMMA SaleMoves ==
  ASSUME Inv, NEW a, NEW u, NEW amount, NEW kind, SaleStep(a, u, amount, kind)
  PROVE  /\ Paid' = [Paid EXCEPT ![u] = @ + amount]
         /\ Earned' = [Earned EXCEPT ![Seller(a)] = @ + amount]
<1>1. \A v \in Users : /\ acct[v].won + acct[v].bought + 0 = acct[v].won + acct[v].bought
                       /\ acct[v].sold + 0 = acct[v].sold
  BY ColumnTypes DEF Inv, TypeOK
<1>2. \A v \in Users : /\ Paid'[v] = IF v = u THEN Paid[v] + amount ELSE Paid[v]
                       /\ Earned'[v] = IF v = Seller(a) THEN Earned[v] + amount ELSE Earned[v]
  BY <1>1 DEF SaleStep, ShowsSale, Paid, Earned
<1>3. Paid' = [Paid EXCEPT ![u] = @ + amount]
  BY <1>2 DEF Paid, SaleStep
<1>4. Earned' = [Earned EXCEPT ![Seller(a)] = @ + amount]
  BY <1>2 DEF Earned
<1> QED BY <1>3, <1>4

\* A step maps to the sale it makes or to a step that leaves the ledger alone.
LEMMA NextSale ==
  ASSUME Inv, Submitted, terms' = terms, SafeForMoney
  PROVE  [Ledger!SaleNext]_(Ledger!saleVars)
<1>1. CASE NoSaleStep
  BY <1>1 DEF NoSaleStep, KeepsSales, Ledger!saleVars, Seller
<1>2. ASSUME NEW a, NEW u, NEW amount, NEW kind, SaleStep(a, u, amount, kind)
      PROVE  Ledger!SaleNext
  <2>1. /\ a \in Auctions /\ u \in Users /\ kind \in {"WON_AUCTION", "DIRECT_SALE"}
        /\ amount \in SaleAmounts
    BY <1>2 DEF SaleStep, Offered, Submitted, SaleAmounts
  <2>2. /\ Paid' = [Paid EXCEPT ![u] = @ + amount]
        /\ Earned' = [Earned EXCEPT ![Seller(a)] = @ + amount]
    BY <1>2, SaleMoves
  <2>3. [b \in Auctions |-> Seller(b)]' = [b \in Auctions |-> Seller(b)]
    BY DEF Seller
  <2>4. /\ settlement[a] = NoSettlement /\ u # Seller(a) /\ amount > 0
        /\ settlement' = [settlement EXCEPT ![a] =
                             [party |-> u, amount |-> amount, kind |-> kind]]
    BY <1>2 DEF SaleStep, Settled
  <2>5. Ledger!Sell(a, u, amount, kind)
    BY <2>1, <2>2, <2>3, <2>4 DEF Ledger!Sell, Paid, Earned
  <2> QED BY <2>1, <2>5 DEF Ledger!SaleNext
<1> QED BY <1>1, <1>2 DEF SafeForMoney

\* The escrow path implements Sale: whatever users, the worker and the admins do,
\* an auction is sold at most once, to somebody other than its seller, for one
\* amount that the buyer pays and the seller receives.
THEOREM SoldAtMostOnce == Spec => SoldOnce
<1>1. Init => Ledger!SaleInit
  BY InitSale
<1>2. Init => Submitted
  BY DEF Init, Submitted
<1>3. Inv /\ Submitted /\ [Next]_vars => Submitted'
  BY NextRows DEF Inv, RowsKept, RowsStay, Submitted
<1>4. Inv /\ Submitted /\ [Next]_vars => [Ledger!SaleNext]_(Ledger!saleVars)
  BY NextMoney, TermsFixed, NextSale DEF Inv
<1> QED BY <1>1, <1>2, <1>3, <1>4, InvCorrect, PTL DEF Spec, SoldOnce, Ledger!SaleSpec
-----------------------------------------------------------------------------
(* English auctions climb                                                  *)

\* EnglishBidsClimb for one auction.
Climbs(a) ==
  /\ \A i \in DOMAIN bids[a] : bids[a][i].status = "WINNING" => i = Len(bids[a])
  /\ settlement[a].kind # "DIRECT_SALE" =>
       /\ \A i \in DOMAIN bids[a] : i > 1 =>
            bids[a][i].amount >= bids[a][i - 1].amount + terms[a].minIncrement
       /\ bids[a] # <<>> => price[a] = bids[a][Len(bids[a])].amount

\* No bid is added or becomes WINNING, and the price stays, becomes that of a
\* WINNING bid or is that of a direct sale.
QuietRows(a) ==
  /\ Len(bids'[a]) = Len(bids[a])
  /\ DOMAIN bids'[a] = DOMAIN bids[a]
  /\ \A i \in DOMAIN bids[a] :
       /\ bids'[a][i].amount = bids[a][i].amount
       /\ bids'[a][i].status = "WINNING" => bids[a][i].status = "WINNING"

QuietPrice(a) ==
  \/ price'[a] = price[a]
  \/ settlement'[a].kind = "DIRECT_SALE"
  \/ \E i \in DOMAIN bids[a] : bids[a][i].status = "WINNING" /\ price'[a] = bids[a][i].amount

\* A quiet step keeps an auction climbing.
LEMMA QuietClimbs ==
  ASSUME Inv, NEW a \in Auctions, Climbs(a), terms' = terms, QuietRows(a), QuietPrice(a),
         settlement[a].kind = "DIRECT_SALE" => settlement'[a].kind = "DIRECT_SALE",
         bids'[a] \in Seq(Bid)
  PROVE  Climbs(a)'
<1>1. /\ bids[a] \in Seq(Bid) /\ Len(bids[a]) \in Nat
      /\ DOMAIN bids[a] = 1 .. Len(bids[a])
  BY BidRows DEF Inv
<1>2. \A i \in DOMAIN bids'[a] : bids'[a][i].status = "WINNING" => i = Len(bids'[a])
  BY DEF QuietRows, Climbs
<1>3. ASSUME settlement'[a].kind # "DIRECT_SALE"
      PROVE  /\ \A i \in DOMAIN bids'[a] : i > 1 =>
                  bids'[a][i].amount >= bids'[a][i - 1].amount + terms'[a].minIncrement
             /\ bids'[a] # <<>> => price'[a] = bids'[a][Len(bids'[a])].amount
  <2>1. settlement[a].kind # "DIRECT_SALE"
    BY <1>3
  <2>2. ASSUME NEW i \in DOMAIN bids'[a], i > 1
        PROVE  bids'[a][i].amount >= bids'[a][i - 1].amount + terms[a].minIncrement
    <3>1. i \in DOMAIN bids[a] /\ i - 1 \in DOMAIN bids[a]
      BY <1>1, <2>2 DEF QuietRows
    <3> QED BY <2>1, <2>2, <3>1 DEF QuietRows, Climbs
  <2>3. ASSUME bids'[a] # <<>>
        PROVE  price'[a] = bids'[a][Len(bids'[a])].amount
    <3>2. Len(bids'[a]) # 0
      BY <2>3, EmptySeq
    <3>3. Len(bids[a]) \in DOMAIN bids[a] /\ bids[a] # <<>>
      BY <1>1, <3>2, EmptySeq DEF QuietRows
    <3>4. price[a] = bids[a][Len(bids[a])].amount
      BY <2>1, <3>3 DEF Climbs
    <3>5. price'[a] = bids[a][Len(bids[a])].amount
      BY <1>3, <3>4 DEF QuietPrice, Climbs
    <3> QED BY <3>3, <3>5 DEF QuietRows
  <2> QED BY <2>2, <2>3
<1> QED BY <1>2, <1>3 DEF Climbs
\* A bid on an English auction keeps it climbing: the bid it displaces was the
\* only WINNING one.
LEMMA BidClimbs ==
  ASSUME Inv, NEW a \in Auctions, English(a), Climbs(a), NEW u \in Users,
         NEW amount \in BidAmounts, PlaceBid(u, a, amount)
  PROVE  Climbs(a)'
<1> DEFINE n == Len(bids[a])
           b == NewBid(u, amount, "WINNING")
<1>1. /\ bids[a] \in Seq(Bid) /\ n \in Nat /\ DOMAIN bids[a] = 1 .. n
      /\ \A i \in DOMAIN bids[a] : bids[a][i].amount \in Nat
  BY BidRows DEF Inv
<1>2. b \in Bid /\ b.amount = amount /\ b.status = "WINNING" /\ amount \in Nat
  BY NewBidTyped, AmountsAssumption DEF BidStatuses, NewBid
<1>3. /\ amount >= price[a] + terms[a].minIncrement
      /\ price'[a] = amount /\ settlement' = settlement /\ terms' = terms
  BY DEF PlaceBid, CanBid, BidAcceptable, English, Sealed, Inv, TypeOK
<1>4. PICK prev \in Displaced(a) :
        bids' = [bids EXCEPT ![a] = Append(Mark(a, {prev}, "OUTBID"), b)]
  BY DEF PlaceBid
<1> DEFINE s == Mark(a, {prev}, "OUTBID")
<1>5. /\ s \in Seq(Bid) /\ Len(s) = n /\ DOMAIN s = DOMAIN bids[a]
      /\ \A i \in DOMAIN bids[a] :
           /\ s[i].amount = bids[a][i].amount
           /\ s[i].status = IF i = prev THEN "OUTBID" ELSE bids[a][i].status
  BY MarkFacts DEF BidStatuses, Inv
<1> HIDE DEF s, b
<1>6. \A i \in DOMAIN bids[a] : s[i].status # "WINNING"
  <2>1. \A i \in DOMAIN bids[a] : bids[a][i].status = "WINNING" => i = n
    BY DEF Climbs
  <2>2. \A i \in DOMAIN bids[a] : bids[a][i].status = "WINNING" => i = prev
    BY <2>1 DEF Displaced, BidsWith
  <2> QED BY <1>5, <2>2
<1> DEFINE t == Append(s, b)
<1>7. /\ t \in Seq(Bid) /\ Len(t) = n + 1
      /\ \A i \in 1 .. n : t[i] = s[i]
      /\ t[n + 1] = b
  BY <1>2, <1>5, AppendProperties
<1>8. bids'[a] = t
  BY <1>4 DEF Inv, TypeOK, s
<1> HIDE DEF t
<1>9. DOMAIN t = 1 .. (n + 1)
  BY <1>7, LenProperties
<1>10. \A i \in DOMAIN t : t[i].status = "WINNING" => i = n + 1
  BY <1>1, <1>5, <1>6, <1>7, <1>9
<1>11. ASSUME settlement[a].kind # "DIRECT_SALE", NEW i \in DOMAIN t, i > 1
       PROVE  t[i].amount >= t[i - 1].amount + terms[a].minIncrement
  <2>1. CASE i \in DOMAIN bids[a]
    <3>1. i - 1 \in DOMAIN bids[a] /\ i \in 1 .. n /\ i - 1 \in 1 .. n
      BY <1>1, <1>11, <2>1
    <3>2. bids[a][i].amount >= bids[a][i - 1].amount + terms[a].minIncrement
      BY <1>11, <2>1 DEF Climbs
    <3> QED BY <1>5, <1>7, <2>1, <3>1, <3>2
  <2>2. CASE i \notin DOMAIN bids[a]
    <3>1. i = n + 1 /\ n \in DOMAIN bids[a] /\ n \in 1 .. n
      BY <1>1, <1>9, <1>11, <2>2
    <3>2. bids[a] # <<>>
      BY <3>1, <1>1, EmptySeq
    <3>3. price[a] = bids[a][n].amount
      BY <1>11, <3>2 DEF Climbs
    <3>4. t[i].amount = amount /\ t[i - 1].amount = bids[a][n].amount
      BY <1>1, <1>2, <1>5, <1>7, <3>1
    <3> QED BY <1>3, <3>3, <3>4
  <2> QED BY <2>1, <2>2
<1>12. /\ Len(t) = n + 1 /\ t[n + 1].amount = amount
  BY <1>2, <1>7
<1> QED BY <1>3, <1>8, <1>10, <1>11, <1>12 DEF Climbs

\* Marking the bids of an auction with a status other than WINNING is quiet.
LEMMA MarkQuiet ==
  ASSUME TypeOK, NEW a \in Auctions, NEW d \in Auctions, NEW S, NEW st \in BidStatuses \ {"WINNING"},
         bids' = [bids EXCEPT ![d] = Mark(d, S, st)]
  PROVE  QuietRows(a)
<1>1. CASE a = d
  <2> DEFINE s == Mark(a, S, st)
  <2>1. /\ Len(s) = Len(bids[a]) /\ DOMAIN s = DOMAIN bids[a]
        /\ \A i \in DOMAIN bids[a] :
             /\ s[i].amount = bids[a][i].amount
             /\ s[i].status = IF i \in S THEN st ELSE bids[a][i].status
    BY MarkFacts
  <2>2. bids'[a] = s
    BY <1>1 DEF TypeOK
  <2> HIDE DEF s
  <2> QED BY <2>1, <2>2 DEF QuietRows
<1>2. CASE a # d
  BY <1>2 DEF TypeOK, QuietRows
<1> QED BY <1>1, <1>2

\* The refund of a sealed auction leaves the rows of English auctions alone.
LEMMA RefundQuiet ==
  ASSUME TypeOK, NEW a \in Auctions, NEW c \in closing, RefundSealed(c)
  PROVE  QuietRows(a)
<1> DEFINE d == c.auction
           pending == {i \in DOMAIN bids[d] : ~bids[d][i].refunded}
<1>1. d \in Auctions
  BY ClosingFacts
<1>2. PICK top : bids' = [bids EXCEPT ![d] =
                   [i \in DOMAIN bids[d] |->
                      IF i \notin pending THEN bids[d][i]
                      ELSE [bids[d][i] EXCEPT !.refunded = TRUE,
                                              !.status = IF i = top THEN "WON" ELSE "LOST"]]]
  BY DEF RefundSealed
<1>3. CASE a = d
  <2> DEFINE row(i) == [bids[d][i] EXCEPT !.refunded = TRUE,
                                          !.status = IF i = top THEN "WON" ELSE "LOST"]
  <2>1. \A i \in DOMAIN bids[d] : bids'[d][i] = IF i \notin pending THEN bids[d][i] ELSE row(i)
    BY <1>1, <1>2 DEF TypeOK
  <2>2. ASSUME NEW i \in DOMAIN bids[d]
        PROVE  row(i).amount = bids[d][i].amount /\ row(i).status # "WINNING"
    <3>1. bids[d][i] \in Bid
      BY <1>1, BidRows
    <3> QED BY <3>1 DEF Bid
  <2>3. DOMAIN bids'[d] = DOMAIN bids[d]
    BY <1>1, <1>2 DEF TypeOK
  <2>4. bids'[d] \in Seq(Bid)
    BY <1>1, RefundSealedRows DEF RowsKept, RowsStay
  <2>5. Len(bids'[d]) = Len(bids[d])
    BY <1>1, <2>3, <2>4, BidRows, LenProperties
  <2> HIDE DEF row
  <2> QED BY <1>3, <2>1, <2>2, <2>3, <2>5 DEF QuietRows
<1>4. CASE a # d
  BY <1>2, <1>4 DEF TypeOK, QuietRows
<1> QED BY <1>3, <1>4
\* A step that leaves the rows and the price of a alone is quiet for a.
LEMMA IdleQuiet ==
  ASSUME TypeOK, NEW a \in Auctions, bids'[a] = bids[a], price'[a] = price[a]
  PROVE  QuietRows(a) /\ QuietPrice(a)
BY DEF QuietRows, QuietPrice

\* For an English auction, every step but a bid on it is quiet.
LEMMA NextQuiet ==
  ASSUME Inv, [Next]_vars, NEW a \in Auctions, English(a)
  PROVE  \/ QuietRows(a) /\ QuietPrice(a)
         \/ \E u \in Users, amount \in BidAmounts : PlaceBid(u, a, amount)
<1> DEFINE Quiet == QuietRows(a) /\ QuietPrice(a)
<1> USE DEF Inv
<1>1. CASE UNCHANGED vars
  BY <1>1, IdleQuiet DEF vars
<1>2. ASSUME NEW u \in Users, NEW d \in Auctions, NEW amount \in BidAmounts,
             PlaceBid(u, d, amount), d # a
      PROVE  Quiet
  <2>1. bids'[a] = bids[a] /\ price'[a] = price[a]
    BY <1>2 DEF PlaceBid, TypeOK
  <2> QED BY <2>1, IdleQuiet
<1>3. ASSUME NEW u \in Users, NEW d \in Auctions, NEW amount \in BidAmounts,
             AcceptDutch(u, d, amount)
      PROVE  Quiet
  <2>1. d # a
    BY <1>3 DEF AcceptDutch, Dutch, English
  <2>2. bids'[a] = bids[a] /\ price'[a] = price[a]
    BY <1>3, <2>1 DEF AcceptDutch, TypeOK
  <2> QED BY <2>2, IdleQuiet
<1>4. ASSUME NEW u \in Users, NEW d \in Auctions, BuyNow(u, d)
      PROVE  Quiet
  <2>1. bids' = bids
    BY <1>4 DEF BuyNow
  <2>2. a # d => price'[a] = price[a]
    BY <1>4 DEF BuyNow, TypeOK
  <2>3. a = d => settlement'[a].kind = "DIRECT_SALE"
    BY <1>4 DEF BuyNow, TypeOK
  <2> QED BY <2>1, <2>2, <2>3 DEF QuietRows, QuietPrice
<1>5. ASSUME NEW u \in Users, NEW d \in Auctions, ConfirmWinnerPayment(u, d)
      PROVE  Quiet
  <2>1. price' = price /\ \E b \in Payable(u, d) : bids' = [bids EXCEPT ![d] = Mark(d, {b}, "WON")]
    BY <1>5 DEF ConfirmWinnerPayment
  <2>2. "WON" \in BidStatuses \ {"WINNING"}
    BY DEF BidStatuses
  <2> QED BY <2>1, <2>2, MarkQuiet DEF QuietPrice
<1>6. ASSUME NEW d \in Auctions, CancelAuction(d)
      PROVE  Quiet
  <2>1. price' = price /\ bids' = [bids EXCEPT ![d] = Mark(d, BidsWith(d, "WINNING"), "OUTBID")]
    BY <1>6 DEF CancelAuction
  <2>2. "OUTBID" \in BidStatuses \ {"WINNING"}
    BY DEF BidStatuses
  <2> QED BY <2>1, <2>2, MarkQuiet DEF QuietPrice
<1>7. ASSUME NEW d \in Auctions,
             \/ \E action \in Moderations : ModerateAuction(d, action)
             \/ ReadPending(d) \/ WriteActive(d) \/ EndJobReturns(d) \/ Expire(d)
             \/ TakeDrop(d)
      PROVE  Quiet
  BY <1>7, IdleQuiet DEF ModerateAuction, ReadPending, WriteActive, EndJobReturns, Expire,
                         TakeDrop
<1>8. ASSUME NEW d \in Auctions, Determined(d)
      PROVE  Quiet
  <2>1. PICK b \in Leading(d) : Determine(d, b)
    BY <1>8 DEF Determined
  <2>2. a # d => price'[a] = price[a]
    BY <2>1 DEF Determine, TypeOK
  <2>3. a = d => \/ price'[a] = price[a]
                 \/ b # 0 /\ price'[a] = bids[a][b].amount
    BY <2>1 DEF Determine, TypeOK
  <2>4. QuietPrice(a)
    BY <2>1, <2>2, <2>3, LeadingFacts DEF QuietPrice
  <2>5. bids' = bids
    BY <1>8 DEF Determined
  <2> QED BY <2>4, <2>5 DEF QuietRows
<1>13. ASSUME NEW d \in drops, WritePrice(d) \/ EndAtFloor(d) \/ DropFails(d)
       PROVE  Quiet
  <2> DEFINE e == d.auction
  <2>1. e \in Auctions
    BY <1>13, DropShape
  <2>2. CASE Determined(e)
    BY <1>8, <2>1, <2>2
  <2>3. ASSUME ~AtFloor(e, d.price), price' = [price EXCEPT ![e] = d.price], bids' = bids
        PROVE  Quiet
    <3>1. QuietRows(a)
      BY <2>3 DEF QuietRows
    <3>2. e # a => Quiet
      BY <2>1, <2>3, IdleQuiet DEF TypeOK
    <3>3. e # a
      BY <1>13 DEF DropsAreDutch, Dutch, English
    <3> QED BY <3>2, <3>3
  <2>4. CASE bids' = bids /\ price' = price
    BY <2>4, IdleQuiet
  <2> QED BY <1>13, <2>2, <2>3, <2>4, DropShape
<1>9. ASSUME NEW c \in closing, RefundSealed(c)
      PROVE  Quiet
  BY <1>9, RefundQuiet DEF RefundSealed, QuietPrice
<1>10. ASSUME NEW c \in closing, SettleWinner(c)
       PROVE  Quiet
  <2>1. price' = price /\ bids' = [bids EXCEPT ![c.auction] = Mark(c.auction, {c.bid}, "WON")]
    BY <1>10 DEF SettleWinner
  <2>2. c.auction \in Auctions /\ "WON" \in BidStatuses \ {"WINNING"}
    BY ClosingFacts DEF BidStatuses
  <2> QED BY <2>1, <2>2, MarkQuiet DEF QuietPrice
<1>11. ASSUME NEW c \in closing, (\E kind \in FaultKinds : Redeliver(c, kind)) \/ Abort(c)
       PROVE  Quiet
  BY <1>11, IdleQuiet DEF Redeliver, Abort
<1>12. ASSUME NEW u \in Users, NEW amount \in Transfers,
              Deposit(u, amount) \/ WriteDepositRow(u, amount) \/ Withdraw(u, amount)
       PROVE  Quiet
  BY <1>12, IdleQuiet DEF Deposit, WriteDepositRow, Withdraw
<1> QED BY <1>1, <1>2, <1>3, <1>4, <1>5, <1>6, <1>7, <1>8, <1>9, <1>10, <1>11, <1>12, <1>13,
           EndDetermines
  DEF Next

\* A direct sale stays one: settlements are written once.
LEMMA DirectSaleStays ==
  ASSUME Inv, [Next]_vars, NEW a \in Auctions, settlement[a].kind = "DIRECT_SALE"
  PROVE  settlement'[a].kind = "DIRECT_SALE"
<1>1. CASE NoSaleStep
  BY <1>1 DEF NoSaleStep
<1>2. ASSUME NEW d, NEW u, NEW amount, NEW kind, SaleStep(d, u, amount, kind)
      PROVE  settlement'[a].kind = "DIRECT_SALE"
  <2>1. a # d
    BY <1>2 DEF SaleStep, Settled, NoSettlement
  <2> QED BY <1>2, <2>1 DEF SaleStep, Inv, TypeOK
<1> QED BY <1>1, <1>2, NextMoney DEF SafeForMoney, Inv

\* Every step keeps English auctions climbing.
LEMMA NextClimbs ==
  ASSUME Inv, EnglishBidsClimb, [Next]_vars
  PROVE  EnglishBidsClimb'
<1> SUFFICES ASSUME NEW a \in Auctions, English(a)'
             PROVE  Climbs(a)'
  BY DEF EnglishBidsClimb, Climbs
<1>1. terms' = terms
  BY TermsFixed
<1>2. English(a) /\ Climbs(a)
  BY <1>1 DEF English, EnglishBidsClimb, Climbs
<1>3. CASE QuietRows(a) /\ QuietPrice(a)
  <2>1. bids'[a] \in Seq(Bid)
    BY NextRows DEF RowsKept, RowsStay, Inv
  <2> QED BY <1>1, <1>2, <1>3, <2>1, DirectSaleStays, QuietClimbs
<1>4. CASE \E u \in Users, amount \in BidAmounts : PlaceBid(u, a, amount)
  BY <1>2, <1>4, BidClimbs
<1> QED BY <1>2, <1>3, <1>4, NextQuiet

\* An English auction climbs by the increment until it is bought now, its last
\* bid is the current price and is the only one that may hold money.
THEOREM EnglishAuctionsClimb == Spec => []EnglishBidsClimb
<1>1. Init => EnglishBidsClimb
  BY LenProperties, EmptySeq DEF Init, EnglishBidsClimb
<1>2. Inv /\ EnglishBidsClimb /\ [Next]_vars => EnglishBidsClimb'
  BY NextClimbs
<1> QED BY <1>1, <1>2, InvCorrect, PTL DEF Spec


-----------------------------------------------------------------------------
(* The inductive invariant, auction by auction                             *)

\* The bids whose status says that money is held or was paid for them.
Holding(a) == BidsWith(a, "WINNING") \cup BidsWith(a, "WON")

SoldDirectly(a) == settlement[a].kind = "DIRECT_SALE"

\* The auction has ended with a winner who bid for it.
WonByBid(a) == status[a] = "ENDED" /\ winner[a] # NoUser /\ ~SoldDirectly(a)

\* An auction that has not ended has no outcome yet.
NoOutcomeYet(a) ==
  status[a] # "ENDED" =>
    /\ ~Settled(a) /\ winner[a] = NoUser /\ winnerBid[a] = 0
    /\ \A c \in closing : c.auction # a
    /\ \A i \in DOMAIN bids[a] :
         ~bids[a][i].refunded /\ bids[a][i].status \in {"WINNING", "OUTBID"}

\* A Dutch auction starts at its reserve or above: createAuction does not check it.
DutchAboveReserve ==
  \A listing \in Catalogs, a \in Auctions :
    listing[a].type = "DUTCH" => listing[a].reservePrice <= listing[a].startingPrice

\* Nobody has bid on an auction that has yet to start, nor on a Dutch one on offer, whose
\* price has not dropped below its reserve.
Untouched(a) ==
  /\ a \in starting => status[a] \in {"PENDING", "CANCELLED"} /\ bids[a] = <<>>
  /\ status[a] = "PENDING" => bids[a] = <<>>
  /\ Dutch(a) /\ status[a] # "ENDED" =>
       bids[a] = <<>> /\ (DutchAboveReserve => terms[a].reservePrice <= price[a])

\* Every bid of a sealed auction on offer is WINNING and none of a cancelled one is;
\* the price of an English auction is that of its best bid.
OnOffer(a) ==
  /\ Sealed(a) /\ status[a] = "ACTIVE" => \A i \in DOMAIN bids[a] : bids[a][i].status = "WINNING"
  /\ status[a] = "CANCELLED" => \A i \in DOMAIN bids[a] : bids[a][i].status # "WINNING"
  /\ English(a) /\ ~SoldDirectly(a) => \A i \in DOMAIN bids[a] : bids[a][i].amount <= price[a]

\* A run of endAuction under way remembers what its ended auction shows, and settles
\* a sealed auction only after the refund.
RunShows(c) ==
  LET a == c.auction
  IN  /\ status[a] = "ENDED" /\ ~SoldDirectly(a) /\ ~Dutch(a)
      /\ c.winner = winner[a]
      /\ c.winner # NoUser => c.bid = winnerBid[a]
      /\ c.step = "refund" => Sealed(a)
      /\ Sealed(a) /\ c.step = "settle" => \A i \in DOMAIN bids[a] : bids[a][i].refunded

\* One server process runs the scheduler, and no admin overwrites a status.
Undisturbed == OneScheduler /\ Moderations = {}

\* BestBidWins for one auction, and the price is that of the winning bid: a drop under way
\* may overwrite that of a Dutch auction.
BestWins(a) ==
  WonByBid(a) =>
    /\ winnerBid[a] \in TopOf(a, DOMAIN bids[a])
    /\ bids[a][winnerBid[a]].bidder = winner[a]
    /\ DutchAboveReserve \/ ~Dutch(a) => MeetsReserve(a, winnerBid[a])
    /\ ~Dutch(a) => bids[a][winnerBid[a]].amount = price[a]

\* A Dutch acceptance settles at once; elsewhere, if the winner can confirm at all, one of the bids to confirm is of the price.
Confirmable(a) ==
  WonByBid(a) /\ ~Settled(a) =>
    LET P == {i \in Holding(a) : bids[a][i].bidder = winner[a]}
    IN  ~Dutch(a) /\ (P = {} \/ \E i \in P : bids[a][i].amount = price[a])

\* The drop-price job under way on a, if any, is the only one, of an auction that has begun,
\* and it writes what follows the price that the row still shows, which is what an acceptance
\* has paid.
DropsKnown(a) ==
  \A d \in drops : d.auction = a =>
    /\ \A e \in drops : e.auction = a => e = d
    /\ a \notin starting /\ status[a] # "PENDING"
    /\ ~SoldDirectly(a) => /\ d.price = Dropped(a)
                           /\ Settled(a) => settlement[a].amount = price[a]

\* The refund transaction processes all bids of an auction at once.
AllOrNone(a) == \A i, j \in DOMAIN bids[a] : bids[a][i].refunded = bids[a][j].refunded

\* The settled part of PaidAsShown, for one auction.
ShownIsSettled(a) ==
  Settled(a) => /\ status[a] = "ENDED"
                /\ settlement[a].party = winner[a]
                /\ AmountShown(a)

AuctionSound(a) ==
  /\ NoOutcomeYet(a)
  /\ Untouched(a)
  /\ OnOffer(a)
  /\ BestWins(a)
  /\ Confirmable(a)
  /\ AllOrNone(a)
  /\ ShownIsSettled(a)
  /\ DropsKnown(a)
  /\ \A c \in closing : c.auction = a => RunShows(c)

OutcomeInv == Inv /\ EnglishBidsClimb /\ \A a \in Auctions : AuctionSound(a)

-----------------------------------------------------------------------------
(* Steps that concern another auction                                      *)

\* The step leaves auction a and the runs and jobs that work on it alone.
SameAuction(a) ==
  /\ terms' = terms
  /\ status'[a] = status[a] /\ price'[a] = price[a]
  /\ winner'[a] = winner[a] /\ winnerBid'[a] = winnerBid[a]
  /\ bids'[a] = bids[a] /\ settlement'[a] = settlement[a]
  /\ a \in starting' => a \in starting
  /\ \A c \in closing' : c.auction = a => c \in closing
  /\ \A d \in drops' : d.auction = a => d \in drops

\* Such a step keeps what is known of a.
LEMMA SameSound ==
  ASSUME NEW a \in Auctions, AuctionSound(a), SameAuction(a)
  PROVE  AuctionSound(a)'
<1> USE DEF SameAuction
<1>1. /\ Dutch(a)' = Dutch(a) /\ English(a)' = English(a) /\ Sealed(a)' = Sealed(a)
      /\ Settled(a)' = Settled(a) /\ SoldDirectly(a)' = SoldDirectly(a)
      /\ WonByBid(a)' = WonByBid(a)
  BY DEF Dutch, English, Sealed, Settled, SoldDirectly, WonByBid
<1>2. NoOutcomeYet(a)'
  BY <1>1 DEF AuctionSound, NoOutcomeYet
<1>3. Untouched(a)'
  BY <1>1 DEF AuctionSound, Untouched
<1>4. OnOffer(a)'
  BY <1>1 DEF AuctionSound, OnOffer
<1>5. BestWins(a)'
  BY <1>1 DEF AuctionSound, BestWins, TopOf, MeetsReserve, DutchAboveReserve
<1>6. Confirmable(a)'
  <2>1. Holding(a)' = Holding(a)
    BY DEF Holding, BidsWith
  <2> QED BY <1>1, <2>1 DEF AuctionSound, Confirmable
<1>7. AllOrNone(a)' /\ ShownIsSettled(a)'
  BY <1>1 DEF AuctionSound, AllOrNone, ShownIsSettled, AmountShown
<1>9. DropsKnown(a)'
  BY <1>1 DEF AuctionSound, DropsKnown, Dropped
<1>8. ASSUME NEW c \in closing', c.auction = a
      PROVE  RunShows(c)'
  <2>1. RunShows(c)
    BY <1>8 DEF AuctionSound
  <2> QED BY <1>1, <1>8, <2>1 DEF RunShows, Sealed, Dutch, SoldDirectly
<1> QED BY <1>2, <1>3, <1>4, <1>5, <1>6, <1>7, <1>8, <1>9 DEF AuctionSound

-----------------------------------------------------------------------------
(* placeBid                                                                *)

\* Row k of auction a in the next state.
RowIs(a, k, bidder, amount, st, refunded) ==
  /\ bids'[a][k].bidder = bidder /\ bids'[a][k].amount = amount
  /\ bids'[a][k].status = st /\ bids'[a][k].refunded = refunded

\* One bid is added to auction a, and bid prev becomes OUTBID.
BidAdded(a, prev, u, amount, st) ==
  LET n == Len(bids[a])
  IN  /\ DOMAIN bids'[a] = 1 .. (n + 1)
      /\ RowIs(a, n + 1, u, amount, st, FALSE)
      /\ \A i \in DOMAIN bids[a] :
           RowIs(a, i, bids[a][i].bidder, bids[a][i].amount,
                 IF i = prev THEN "OUTBID" ELSE bids[a][i].status, bids[a][i].refunded)

\* Appending a bid to rows of which prev was marked.
LEMMA AppendShape ==
  ASSUME TypeOK, NEW a \in Auctions, NEW s \in Seq(Bid), NEW prev,
         DOMAIN s = DOMAIN bids[a],
         \A i \in DOMAIN bids[a] :
           /\ s[i].bidder = bids[a][i].bidder /\ s[i].amount = bids[a][i].amount
           /\ s[i].refunded = bids[a][i].refunded
           /\ s[i].status = IF i = prev THEN "OUTBID" ELSE bids[a][i].status,
         NEW u \in Users, NEW amount \in BidAmounts, NEW st \in BidStatuses,
         bids' = [bids EXCEPT ![a] = Append(s, NewBid(u, amount, st))]
  PROVE  BidAdded(a, prev, u, amount, st)
<1> DEFINE n == Len(bids[a])
           b == NewBid(u, amount, st)
           t == Append(s, b)
<1>1. b \in Bid /\ b.bidder = u /\ b.amount = amount /\ b.status = st /\ b.refunded = FALSE
  BY NewBidTyped, AmountsAssumption DEF NewBid
<1> HIDE DEF b
<1>2. n \in Nat /\ Len(s) = n /\ DOMAIN bids[a] = 1 .. n
  BY BidRows, LenProperties
<1>3. /\ t \in Seq(Bid) /\ Len(t) = n + 1
      /\ \A i \in 1 .. n : t[i] = s[i]
      /\ t[n + 1] = b
  BY <1>1, <1>2, AppendProperties
<1>4. DOMAIN t = 1 .. (n + 1)
  BY <1>3, LenProperties
<1>5. bids'[a] = t
  BY DEF b, TypeOK
<1> HIDE DEF t
<1> QED BY <1>1, <1>2, <1>3, <1>4, <1>5 DEF BidAdded, RowIs

\* placeBid adds the bid as WINNING and displaces at most one.
LEMMA PlaceBidShape ==
  ASSUME TypeOK, NEW u \in Users, NEW a \in Auctions, NEW amount \in BidAmounts,
         PlaceBid(u, a, amount)
  PROVE  \E prev \in Displaced(a) :
            /\ acct' = Hold(AfterRelease(a, prev), u, amount)
            /\ BidAdded(a, prev, u, amount, "WINNING")
<1>1. PICK prev \in Displaced(a) :
        /\ acct' = Hold(AfterRelease(a, prev), u, amount)
        /\ bids' = [bids EXCEPT ![a] = Append(Mark(a, {prev}, "OUTBID"),
                                              NewBid(u, amount, "WINNING"))]
  BY DEF PlaceBid
<1> DEFINE s == Mark(a, {prev}, "OUTBID")
<1>2. /\ s \in Seq(Bid) /\ DOMAIN s = DOMAIN bids[a]
      /\ \A i \in DOMAIN bids[a] :
           /\ s[i].bidder = bids[a][i].bidder /\ s[i].amount = bids[a][i].amount
           /\ s[i].refunded = bids[a][i].refunded
           /\ s[i].status = IF i = prev THEN "OUTBID" ELSE bids[a][i].status
  BY MarkFacts DEF BidStatuses
<1>3. bids' = [bids EXCEPT ![a] = Append(s, NewBid(u, amount, "WINNING"))]
  BY <1>1
<1> HIDE DEF s
<1>4. BidAdded(a, prev, u, amount, "WINNING")
  BY <1>2, <1>3, AppendShape DEF BidStatuses
<1> QED BY <1>1, <1>4

\* Only Dutch auctions have drop-price jobs.
LEMMA NoDropsElsewhere ==
  ASSUME Inv, NEW a \in Auctions, ~Dutch(a)
  PROVE  \A d \in drops : d.auction # a
BY DEF Inv, DropsAreDutch

\* A bid keeps the auction sound: nothing is decided, and it is the best one.
LEMMA PlaceBidSound ==
  ASSUME OutcomeInv, NEW u \in Users, NEW a \in Auctions, NEW amount \in BidAmounts,
         PlaceBid(u, a, amount)
  PROVE  AuctionSound(a)'
<1> DEFINE n == Len(bids[a])
<1>1. /\ status[a] = "ACTIVE" /\ ~Dutch(a) /\ amount \in Nat /\ n \in Nat
      /\ DOMAIN bids[a] = 1 .. n
      /\ \A i \in DOMAIN bids[a] : bids[a][i].amount \in Nat
      /\ AuctionSound(a) /\ TypeOK /\ terms[a] \in AuctionTerms /\ price[a] \in Nat
  BY BidRows, AmountsAssumption, CatalogsAssumption DEF PlaceBid, CanBid, OutcomeInv, Inv, TypeOK
<1>2. PICK prev \in Displaced(a) : BidAdded(a, prev, u, amount, "WINNING")
  BY <1>1, PlaceBidShape
<1>3. /\ status' = status /\ winner' = winner /\ winnerBid' = winnerBid
      /\ settlement' = settlement /\ starting' = starting /\ closing' = closing /\ terms' = terms
  BY DEF PlaceBid
<1>4. /\ Dutch(a)' = Dutch(a) /\ English(a)' = English(a) /\ Sealed(a)' = Sealed(a)
      /\ Settled(a)' = Settled(a) /\ SoldDirectly(a)' = SoldDirectly(a)
  BY <1>3 DEF Dutch, English, Sealed, Settled, SoldDirectly
<1>5. NoOutcomeYet(a)
  BY <1>1 DEF AuctionSound
<1>6. /\ ~Settled(a) /\ winner[a] = NoUser /\ winnerBid[a] = 0 /\ \A c \in closing : c.auction # a
      /\ \A i \in DOMAIN bids[a] :
           ~bids[a][i].refunded /\ bids[a][i].status \in {"WINNING", "OUTBID"}
  BY <1>1, <1>5 DEF NoOutcomeYet
<1>7. NoOutcomeYet(a)'
  BY <1>1, <1>2, <1>3, <1>4, <1>6 DEF NoOutcomeYet, BidAdded, RowIs
<1>8. Untouched(a)'
  BY <1>1, <1>3, <1>4 DEF AuctionSound, Untouched
<1>9. OnOffer(a)'
  <2>1. CASE Sealed(a)
    <3>1. prev = 0 /\ ~English(a)
      BY <2>1 DEF Displaced, English, Sealed
    <3>2. \A i \in DOMAIN bids'[a] : bids'[a][i].status = "WINNING"
      BY <1>1, <1>2, <2>1, <3>1 DEF BidAdded, RowIs, AuctionSound, OnOffer
    <3> QED BY <1>1, <1>3, <1>4, <3>1, <3>2 DEF OnOffer
  <2>2. CASE ~Sealed(a)
    <3>1. English(a) /\ price'[a] = amount /\ amount >= price[a] + terms[a].minIncrement
      BY <1>1, <2>2 DEF PlaceBid, CanBid, BidAcceptable, English, Sealed, Dutch, AuctionTerms, TypeOK
    <3>2. terms[a].minIncrement \in Nat
      BY <1>1 DEF AuctionTerms
    <3>4. OnOffer(a)
      BY <1>1 DEF AuctionSound
    <3>3. \A i \in DOMAIN bids'[a] : ~SoldDirectly(a) => bids'[a][i].amount <= price'[a]
      BY <1>1, <1>2, <3>1, <3>2, <3>4 DEF BidAdded, RowIs, OnOffer
    <3> QED BY <1>1, <1>3, <1>4, <2>2, <3>3 DEF OnOffer
  <2> QED BY <2>1, <2>2
<1>10. BestWins(a)' /\ Confirmable(a)' /\ ShownIsSettled(a)'
  BY <1>1, <1>3, <1>4, <1>6 DEF BestWins, Confirmable, ShownIsSettled, WonByBid
<1>11. AllOrNone(a)'
  <2>1. \A i \in DOMAIN bids[a] : bids[a][i].refunded = FALSE
    BY <1>1, <1>6, BidRows
  <2>2. \A i \in DOMAIN bids'[a] : bids'[a][i].refunded = FALSE
    BY <1>1, <1>2, <2>1 DEF BidAdded, RowIs
  <2> QED BY <2>2 DEF AllOrNone
<1>12. \A c \in closing' : c.auction # a
  BY <1>3, <1>6
<1>13. DropsKnown(a)'
  BY <1>1, NoDropsElsewhere DEF PlaceBid, DropsKnown, OutcomeInv
<1> QED BY <1>7, <1>8, <1>9, <1>10, <1>11, <1>12, <1>13 DEF AuctionSound

\* A Dutch acceptance is the only bid of its auction.
LEMMA AcceptDutchShape ==
  ASSUME TypeOK, NEW u \in Users, NEW a \in Auctions, NEW amount \in BidAmounts,
         AcceptDutch(u, a, amount)
  PROVE  BidAdded(a, 0, u, amount, "WON")
<1>1. bids' = [bids EXCEPT ![a] = Append(bids[a], NewBid(u, amount, "WON"))]
  BY DEF AcceptDutch
<1>2. \A i \in DOMAIN bids[a] : i # 0
  BY BidRows
<1>3. bids[a] \in Seq(Bid) /\ "WON" \in BidStatuses
  BY BidRows DEF BidStatuses
<1> QED BY <1>1, <1>2, <1>3, AppendShape

\* A Dutch acceptance decides the auction: the bidder wins and pays the price.
LEMMA AcceptDutchSound ==
  ASSUME OutcomeInv, NEW u \in Users, NEW a \in Auctions, NEW amount \in BidAmounts,
         AcceptDutch(u, a, amount)
  PROVE  AuctionSound(a)'
<1>1. /\ status[a] = "ACTIVE" /\ Dutch(a) /\ amount = price[a] /\ amount \in Nat
      /\ AuctionSound(a) /\ TypeOK
  <2>1. status[a] = "ACTIVE" /\ Dutch(a) /\ BidAcceptable(a, amount)
    BY DEF AcceptDutch, CanBid
  <2>2. amount = price[a]
    BY <2>1 DEF BidAcceptable, English, Dutch, Sealed
  <2>3. amount \in Nat
    BY AmountsAssumption
  <2> QED BY <2>1, <2>2, <2>3 DEF OutcomeInv, Inv
<1>2. /\ ~Settled(a) /\ (\A c \in closing : c.auction # a) /\ bids[a] = <<>>
      /\ (DutchAboveReserve => terms[a].reservePrice <= price[a]) /\ a \notin starting
      /\ ~SoldDirectly(a)
  BY <1>1 DEF AuctionSound, NoOutcomeYet, Untouched, Settled, SoldDirectly, NoSettlement
<1>3. DOMAIN bids'[a] = {1} /\ RowIs(a, 1, u, amount, "WON", FALSE)
  <2>1. BidAdded(a, 0, u, amount, "WON") /\ Len(bids[a]) = 0
    BY <1>1, <1>2, AcceptDutchShape, EmptySeq
  <2>2. 1 .. (0 + 1) = {1} /\ 0 + 1 = 1
    OBVIOUS
  <2> QED BY <2>1, <2>2 DEF BidAdded
<1>4. /\ status'[a] = "ENDED" /\ winner'[a] = u /\ winnerBid'[a] = 1 /\ price'[a] = amount
      /\ starting' = starting /\ drops' = drops /\ closing' = closing /\ terms' = terms
  <2>1. Len(bids[a]) + 1 = 1
    BY <1>2, EmptySeq
  <2> QED BY <1>1, <2>1 DEF AcceptDutch, TypeOK
<1>5. settlement'[a] = [party |-> u, amount |-> amount, kind |-> "WON_AUCTION"]
  BY <1>1, <1>2 DEF AcceptDutch, SettleWon, TypeOK
<1>6. Dutch(a)' /\ ~English(a)' /\ ~Sealed(a)' /\ Settled(a)' /\ ~SoldDirectly(a)'
  BY <1>1, <1>4, <1>5 DEF Dutch, English, Sealed, Settled, SoldDirectly, NoSettlement
<1>7. NoOutcomeYet(a)' /\ Untouched(a)' /\ OnOffer(a)' /\ Confirmable(a)' /\ ShownIsSettled(a)'
  BY <1>2, <1>4, <1>5, <1>6
     DEF NoOutcomeYet, Untouched, OnOffer, Confirmable, ShownIsSettled, AmountShown
<1>11. DropsKnown(a)'
  BY <1>1, <1>2, <1>4, <1>5 DEF AuctionSound, DropsKnown, Dropped
<1>8. AllOrNone(a)'
  BY <1>3 DEF AllOrNone
<1>9. BestWins(a)'
  <2>1. (1 \in TopOf(a, DOMAIN bids[a]))'
    BY <1>1, <1>3 DEF TopOf, RowIs
  <2>2. ASSUME DutchAboveReserve
        PROVE  MeetsReserve(a, 1)'
    <3>1. terms[a] \in AuctionTerms
      BY <1>1, CatalogsAssumption DEF TypeOK
    <3>3. amount >= terms[a].reservePrice
      BY <1>1, <1>2, <2>2, <3>1 DEF AuctionTerms
    <3> QED BY <1>3, <1>4, <3>3 DEF MeetsReserve, RowIs
  <2>3. DutchAboveReserve' = DutchAboveReserve
    BY DEF DutchAboveReserve
  <2> QED BY <1>3, <1>4, <1>6, <2>1, <2>2, <2>3 DEF BestWins, RowIs
<1>10. \A c \in closing' : c.auction # a
  BY <1>2, <1>4
<1> QED BY <1>7, <1>8, <1>9, <1>10, <1>11 DEF AuctionSound
-----------------------------------------------------------------------------
(* buyNow, cancelAuction and the start-auction job                         *)

\* A direct sale decides an auction that had no outcome: its buyer is shown.
LEMMA BuyNowSound ==
  ASSUME OutcomeInv, NEW u \in Users, NEW a \in Auctions, BuyNow(u, a)
  PROVE  AuctionSound(a)'
<1>1. status[a] = "ACTIVE" /\ AuctionSound(a) /\ TypeOK
  BY DEF BuyNow, OutcomeInv, Inv
<1>2. /\ status'[a] = "ENDED" /\ winner'[a] = u /\ price'[a] = terms[a].buyNowPrice
      /\ bids' = bids /\ starting' = starting /\ closing' = closing /\ terms' = terms
      /\ drops' = drops
      /\ settlement'[a] = [party |-> u, amount |-> terms[a].buyNowPrice, kind |-> "DIRECT_SALE"]
  BY <1>1 DEF BuyNow, TypeOK
<1>3. SoldDirectly(a)' /\ Settled(a)'
  BY <1>2 DEF SoldDirectly, Settled, NoSettlement
<1>4. a \notin starting /\ \A c \in closing : c.auction # a
  BY <1>1 DEF AuctionSound, NoOutcomeYet, Untouched
<1>5. NoOutcomeYet(a)' /\ Untouched(a)' /\ OnOffer(a)' /\ ShownIsSettled(a)'
  BY <1>2, <1>3, <1>4 DEF NoOutcomeYet, Untouched, OnOffer, ShownIsSettled, AmountShown
<1>9. DropsKnown(a)'
  BY <1>1, <1>2, <1>3 DEF AuctionSound, DropsKnown
<1>6. BestWins(a)' /\ Confirmable(a)'
  BY <1>3 DEF BestWins, Confirmable, WonByBid
<1>7. AllOrNone(a)'
  BY <1>1, <1>2 DEF AuctionSound, AllOrNone
<1>8. \A c \in closing' : c.auction # a
  BY <1>2, <1>4
<1> QED BY <1>5, <1>6, <1>7, <1>8, <1>9 DEF AuctionSound

\* A cancellation decides nothing and leaves no bid WINNING.
LEMMA CancelAuctionSound ==
  ASSUME OutcomeInv, NEW a \in Auctions, CancelAuction(a)
  PROVE  AuctionSound(a)'
<1>1. status[a] # "ENDED" /\ AuctionSound(a) /\ TypeOK
  BY DEF CancelAuction, OutcomeInv, Inv
<1>2. /\ status'[a] = "CANCELLED" /\ winner' = winner /\ winnerBid' = winnerBid /\ price' = price
      /\ settlement' = settlement /\ starting' = starting /\ closing' = closing /\ terms' = terms
      /\ drops' = drops
      /\ bids'[a] = Mark(a, BidsWith(a, "WINNING"), "OUTBID")
  BY <1>1 DEF CancelAuction, TypeOK
<1>3. /\ DOMAIN bids'[a] = DOMAIN bids[a]
      /\ \A i \in DOMAIN bids[a] :
           /\ bids'[a][i].amount = bids[a][i].amount
           /\ bids'[a][i].refunded = bids[a][i].refunded
           /\ bids'[a][i].status = IF i \in BidsWith(a, "WINNING") THEN "OUTBID" ELSE bids[a][i].status
  <2> DEFINE s == Mark(a, BidsWith(a, "WINNING"), "OUTBID")
  <2>1. /\ DOMAIN s = DOMAIN bids[a]
        /\ \A i \in DOMAIN bids[a] :
             /\ s[i].amount = bids[a][i].amount
             /\ s[i].refunded = bids[a][i].refunded
             /\ s[i].status = IF i \in BidsWith(a, "WINNING") THEN "OUTBID" ELSE bids[a][i].status
    BY <1>1, MarkFacts DEF BidStatuses
  <2> HIDE DEF s
  <2> QED BY <1>2, <2>1 DEF s
<1>4. /\ Dutch(a)' = Dutch(a) /\ English(a)' = English(a) /\ Sealed(a)' = Sealed(a)
      /\ Settled(a)' = Settled(a) /\ SoldDirectly(a)' = SoldDirectly(a)
  BY <1>2 DEF Dutch, English, Sealed, Settled, SoldDirectly
<1>5. /\ ~Settled(a) /\ winner[a] = NoUser /\ winnerBid[a] = 0 /\ \A c \in closing : c.auction # a
      /\ \A i \in DOMAIN bids[a] :
           ~bids[a][i].refunded /\ bids[a][i].status \in {"WINNING", "OUTBID"}
  BY <1>1 DEF AuctionSound, NoOutcomeYet
<1>6. \A i \in DOMAIN bids'[a] : bids'[a][i].status = "OUTBID"
  BY <1>3, <1>5 DEF BidsWith
<1>7. NoOutcomeYet(a)'
  BY <1>2, <1>3, <1>4, <1>5, <1>6 DEF NoOutcomeYet
<1>8. Untouched(a)'
  <2>1. ASSUME bids[a] = <<>>
        PROVE  bids'[a] = <<>>
    <3>1. bids'[a] \in Seq(Bid) /\ Len(bids'[a]) = Len(bids[a])
      BY <1>1, <1>2, MarkFacts DEF BidStatuses
    <3> QED BY <2>1, <3>1, EmptySeq
  <2> QED BY <1>1, <1>2, <1>4, <2>1 DEF AuctionSound, Untouched
<1>9. OnOffer(a)'
  BY <1>1, <1>2, <1>3, <1>4, <1>6 DEF AuctionSound, OnOffer
<1>10. BestWins(a)' /\ Confirmable(a)' /\ ShownIsSettled(a)'
  BY <1>2, <1>4, <1>5 DEF BestWins, Confirmable, ShownIsSettled, WonByBid
<1>11. AllOrNone(a)'
  BY <1>1, <1>3 DEF AuctionSound, AllOrNone
<1>12. \A c \in closing' : c.auction # a
  BY <1>2, <1>5
<1>13. DropsKnown(a)'
  BY <1>1, <1>2, <1>4 DEF AuctionSound, DropsKnown, Dropped
<1> QED BY <1>7, <1>8, <1>9, <1>10, <1>11, <1>12, <1>13 DEF AuctionSound

\* The start-auction job activates an auction that nobody has bid on.
LEMMA StartSound ==
  ASSUME OutcomeInv, NEW a \in Auctions, ReadPending(a) \/ WriteActive(a)
  PROVE  AuctionSound(a)'
<1>1. AuctionSound(a) /\ TypeOK
  BY DEF OutcomeInv, Inv
<1>2. status[a] # "ENDED" /\ bids[a] = <<>>
  BY <1>1 DEF ReadPending, WriteActive, AuctionSound, Untouched
<1>3. /\ bids' = bids /\ winner' = winner /\ winnerBid' = winnerBid /\ price' = price
      /\ settlement' = settlement /\ closing' = closing /\ terms' = terms
      /\ a \in starting' => status'[a] = "PENDING"
      /\ status'[a] # "ENDED"
  BY <1>1, <1>2 DEF ReadPending, WriteActive, TypeOK
<1>4. DOMAIN bids[a] = {}
  BY <1>2
<1>5. /\ Dutch(a)' = Dutch(a) /\ English(a)' = English(a) /\ Sealed(a)' = Sealed(a)
      /\ Settled(a)' = Settled(a) /\ SoldDirectly(a)' = SoldDirectly(a)
  BY <1>3 DEF Dutch, English, Sealed, Settled, SoldDirectly
<1>6. /\ ~Settled(a) /\ winner[a] = NoUser /\ winnerBid[a] = 0 /\ \A c \in closing : c.auction # a
  BY <1>1, <1>2 DEF AuctionSound, NoOutcomeYet
<1>7. NoOutcomeYet(a)' /\ OnOffer(a)' /\ AllOrNone(a)'
  BY <1>3, <1>4, <1>5, <1>6 DEF NoOutcomeYet, OnOffer, AllOrNone
<1>8. Untouched(a)'
  BY <1>1, <1>2, <1>3, <1>5 DEF AuctionSound, Untouched
<1>9. BestWins(a)' /\ Confirmable(a)' /\ ShownIsSettled(a)'
  BY <1>3, <1>5, <1>6 DEF BestWins, Confirmable, ShownIsSettled, WonByBid
<1>10. \A c \in closing' : c.auction # a
  BY <1>3, <1>6
<1>11. DropsKnown(a)'
  <2>1. \A d \in drops' : d.auction # a
    BY <1>1 DEF ReadPending, WriteActive, AuctionSound, DropsKnown
  <2> QED BY <2>1 DEF DropsKnown
<1> QED BY <1>7, <1>8, <1>9, <1>10, <1>11 DEF AuctionSound
-----------------------------------------------------------------------------
(* endAuction                                                              *)

\* The run that the determination starts shows what the auction shows.
LEMMA RemainingShows ==
  ASSUME NEW a, NEW w, NEW b, NEW c \in Remaining(a, w, b)
  PROVE  /\ c.auction = a /\ c.winner = w /\ c.bid = b
         /\ ~Dutch(a)
         /\ c.step = "refund" => Sealed(a)
         /\ c.step = "settle" => ~Sealed(a)
BY DEF Remaining, Sealed, English, Dutch

\* In an English or sealed auction on offer the leading bid is the best of all.
LEMMA LeadingIsBest ==
  ASSUME OutcomeInv, NEW a \in Auctions, Endable(a), NEW b \in Leading(a), b # 0
  PROVE  /\ b \in TopOf(a, DOMAIN bids[a])
         /\ bids[a][b].status = "WINNING"
         /\ ~Dutch(a)
         /\ English(a) => bids[a][b].amount = price[a]
<1>1. status[a] # "ENDED" /\ AuctionSound(a) /\ TypeOK
  BY DEF Endable, OutcomeInv, Inv
<1>2. b \in TopOf(a, BidsWith(a, "WINNING")) /\ b \in DOMAIN bids[a] /\ bids[a][b].status = "WINNING"
  BY DEF Leading, TopOf, BidsWith
<1>3. ~Dutch(a)
  <2>1. bids[a] # <<>>
    BY <1>1, <1>2, BidRows, EmptySeq
  <2> QED BY <1>1, <2>1 DEF AuctionSound, Untouched
<1>4. CASE English(a)
  <2>1. ~SoldDirectly(a)
    BY <1>1 DEF AuctionSound, NoOutcomeYet, Settled, SoldDirectly, NoSettlement
  <2>2. b = Len(bids[a]) /\ bids[a] # <<>> /\ price[a] = bids[a][Len(bids[a])].amount
    <3>1. bids[a] # <<>>
      BY <1>1, <1>2, BidRows, EmptySeq
    <3> QED BY <1>2, <1>4, <2>1, <3>1 DEF OutcomeInv, EnglishBidsClimb, SoldDirectly
  <2>3. \A i \in DOMAIN bids[a] : bids[a][i].amount <= price[a]
    BY <1>1, <1>4, <2>1 DEF AuctionSound, OnOffer
  <2> QED BY <1>2, <1>3, <2>2, <2>3 DEF TopOf
<1>5. CASE Sealed(a)
  <2>1. status[a] \in {"PENDING", "ACTIVE", "CANCELLED"}
    BY <1>1 DEF TypeOK, Statuses
  <2>2. status[a] = "ACTIVE"
    <3>1. bids[a] # <<>>
      BY <1>1, <1>2, BidRows, EmptySeq
    <3> QED BY <1>1, <1>2, <2>1, <3>1 DEF AuctionSound, Untouched, OnOffer
  <2>3. BidsWith(a, "WINNING") = DOMAIN bids[a]
    BY <1>1, <1>5, <2>2 DEF AuctionSound, OnOffer, BidsWith
  <2> QED BY <1>2, <1>3, <1>5, <2>3 DEF English, Sealed
<1>6. English(a) \/ Sealed(a)
  <2>1. terms[a] \in AuctionTerms
    BY <1>1, CatalogsAssumption DEF TypeOK
  <2> QED BY <1>3, <2>1 DEF AuctionTerms, English, Sealed, Dutch
<1> QED BY <1>4, <1>5, <1>6

\* The determination decides an auction without an outcome for the best bid.
LEMMA DeterminedSound ==
  ASSUME OutcomeInv, NEW a \in Auctions, Determined(a), a \notin starting'
  PROVE  AuctionSound(a)'
<1>1. status[a] # "ENDED" /\ Endable(a) /\ AuctionSound(a) /\ TypeOK
  BY DEF Determined, Endable, OutcomeInv, Inv
<1>2. PICK b \in Leading(a) : Determine(a, b)
  BY DEF Determined
<1> DEFINE w == IF b # 0 /\ MeetsReserve(a, b) THEN bids[a][b].bidder ELSE NoUser
<1>3. /\ status'[a] = "ENDED" /\ winner'[a] = w
      /\ winnerBid'[a] = (IF w = NoUser THEN 0 ELSE b)
      /\ price'[a] = (IF w = NoUser THEN price[a] ELSE bids[a][b].amount)
      /\ closing' = closing \cup Remaining(a, w, b)
      /\ bids' = bids /\ starting' = starting /\ settlement' = settlement /\ terms' = terms
      /\ drops' \subseteq drops
  BY <1>1, <1>2 DEF Determine, Determined, TypeOK
<1>4. w # NoUser => b # 0 /\ MeetsReserve(a, b) /\ w = bids[a][b].bidder
  OBVIOUS
<1> HIDE DEF w
<1>5. w # NoUser =>
        /\ b \in TopOf(a, DOMAIN bids[a])
        /\ bids[a][b].status = "WINNING"
        /\ ~Dutch(a)
        /\ English(a) => bids[a][b].amount = price[a]
  BY <1>1, <1>2, <1>4, LeadingIsBest
<1>6. /\ Dutch(a)' = Dutch(a) /\ English(a)' = English(a) /\ Sealed(a)' = Sealed(a)
      /\ Settled(a)' = Settled(a) /\ SoldDirectly(a)' = SoldDirectly(a)
  BY <1>3 DEF Dutch, English, Sealed, Settled, SoldDirectly
<1>7. ~Settled(a) /\ ~SoldDirectly(a) /\ \A c \in closing : c.auction # a
  BY <1>1 DEF AuctionSound, NoOutcomeYet, Settled, SoldDirectly, NoSettlement
<1>8. NoOutcomeYet(a)' /\ ShownIsSettled(a)'
  BY <1>3, <1>6, <1>7 DEF NoOutcomeYet, ShownIsSettled
<1>9. Untouched(a)'
  BY <1>3, <1>6 DEF Untouched
<1>15. DropsKnown(a)'
  <2>1. Dutch(a) => price'[a] = price[a]
    BY <1>3, <1>5
  <2>2. \A d \in drops : d.auction = a => Dutch(a)
    BY NoDropsElsewhere DEF OutcomeInv
  <2> QED BY <1>1, <1>3, <1>6, <1>7, <2>1, <2>2 DEF AuctionSound, DropsKnown, Dropped
<1>10. OnOffer(a)'
  BY <1>1, <1>3, <1>5, <1>6 DEF AuctionSound, OnOffer
<1>11. BestWins(a)'
  <2>1. ASSUME w # NoUser
        PROVE  /\ (b \in TopOf(a, DOMAIN bids[a]))' /\ bids'[a][b].bidder = w
               /\ MeetsReserve(a, b)' /\ bids'[a][b].amount = price'[a]
    BY <1>3, <1>4, <1>5, <2>1 DEF TopOf, MeetsReserve
  <2> QED BY <1>3, <2>1 DEF BestWins, WonByBid
<1>12. Confirmable(a)'
  <2>1. ASSUME w # NoUser
        PROVE  /\ b \in Holding(a)' /\ bids'[a][b].bidder = w /\ bids'[a][b].amount = price'[a]
               /\ ~Dutch(a)
    BY <1>3, <1>4, <1>5, <2>1 DEF TopOf, Holding, BidsWith
  <2> QED BY <1>3, <1>6, <2>1 DEF Confirmable, WonByBid
<1>13. AllOrNone(a)'
  BY <1>1, <1>3 DEF AuctionSound, AllOrNone
<1>14. ASSUME NEW c \in closing', c.auction = a
       PROVE  RunShows(c)'
  <2>1. c \in Remaining(a, w, b)
    BY <1>3, <1>7, <1>14
  <2>2. /\ c.winner = w /\ c.bid = b /\ ~Dutch(a)
        /\ c.step = "refund" => Sealed(a)
        /\ c.step = "settle" => ~Sealed(a)
    BY <2>1, RemainingShows
  <2> QED BY <1>3, <1>6, <1>7, <1>14, <2>2 DEF RunShows, Sealed, Dutch, SoldDirectly
<1> QED BY <1>8, <1>9, <1>10, <1>11, <1>12, <1>13, <1>14, <1>15 DEF AuctionSound

\* The determination by the end-auction job: no start of the auction is under way.
LEMMA EndAuctionSound ==
  ASSUME OutcomeInv, Undisturbed, NEW a \in Auctions, EndAuction(a)
  PROVE  AuctionSound(a)'
<1>1. a \notin starting'
  BY DEF EndAuction, SchedulerFree, Undisturbed
<1>2. Determined(a)
  BY EndDetermines DEF OutcomeInv, Inv
<1> QED BY <1>1, <1>2, DeterminedSound

\* The bids that the refund transaction still has to process.
Unprocessed(a) == {i \in DOMAIN bids[a] : ~bids[a][i].refunded}

\* What it does to the rows of its auction.
RowsProcessed(a, pending, top) ==
  /\ DOMAIN bids'[a] = DOMAIN bids[a]
  /\ \A i \in DOMAIN bids[a] :
       IF i \in pending
       THEN RowIs(a, i, bids[a][i].bidder, bids[a][i].amount, IF i = top THEN "WON" ELSE "LOST", TRUE)
       ELSE bids'[a][i] = bids[a][i]

\* The refund transaction marks what is pending and releases all of it but the top.
LEMMA RefundShape ==
  ASSUME TypeOK, NEW c \in closing, RefundSealed(c)
  PROVE  LET a == c.auction
             pending == Unprocessed(a)
         IN  \E top \in IF pending = {} THEN {0} ELSE TopOf(a, pending) :
               /\ acct' = ReleaseAll(acct, [u \in Users |-> Staked(a, Losing(pending, top), u)])
               /\ RowsProcessed(a, pending, top)
<1> DEFINE a == c.auction
           pending == Unprocessed(a)
<1>1. PICK top \in IF pending = {} THEN {0} ELSE TopOf(a, pending) :
        /\ acct' = ReleaseAll(acct, [u \in Users |-> Staked(a, Losing(pending, top), u)])
        /\ bids' = [bids EXCEPT ![a] =
              [i \in DOMAIN bids[a] |->
                 IF i \notin pending THEN bids[a][i]
                 ELSE [bids[a][i] EXCEPT !.refunded = TRUE,
                                         !.status = IF i = top THEN "WON" ELSE "LOST"]]]
  BY DEF RefundSealed, Unprocessed
<1> DEFINE row(i) == [bids[a][i] EXCEPT !.refunded = TRUE,
                                        !.status = IF i = top THEN "WON" ELSE "LOST"]
<1>2. a \in Auctions
  BY ClosingFacts
<1>3. ASSUME NEW i \in DOMAIN bids[a]
      PROVE  /\ row(i).bidder = bids[a][i].bidder
             /\ row(i).amount = bids[a][i].amount
             /\ row(i).status = IF i = top THEN "WON" ELSE "LOST"
             /\ row(i).refunded = TRUE
  <2>1. bids[a][i] \in Bid
    BY <1>2, BidRows
  <2> QED BY <2>1 DEF Bid
<1>4. /\ DOMAIN bids'[a] = DOMAIN bids[a]
      /\ \A i \in DOMAIN bids[a] : bids'[a][i] = IF i \notin pending THEN bids[a][i] ELSE row(i)
  BY <1>1, <1>2 DEF TypeOK
<1> HIDE DEF row, a, pending
<1>5. ASSUME NEW i \in DOMAIN bids[a], i \in pending
      PROVE  RowIs(a, i, bids[a][i].bidder, bids[a][i].amount, IF i = top THEN "WON" ELSE "LOST", TRUE)
  <2>1. bids'[a][i] = row(i)
    BY <1>4, <1>5
  <2> QED BY <1>3, <2>1 DEF RowIs
<1>6. RowsProcessed(a, pending, top)
  BY <1>4, <1>5 DEF RowsProcessed
<1> QED BY <1>1, <1>6 DEF a, pending

\* The refund transaction decides nothing, and if it leaves the winner a bid to
\* confirm it is the best one.
LEMMA RefundSound ==
  ASSUME OutcomeInv, NEW c \in closing, RefundSealed(c)
  PROVE  AuctionSound(c.auction)'
<1> DEFINE a == c.auction
           pending == Unprocessed(a)
<1>1. a \in Auctions /\ TypeOK /\ AuctionSound(a)
  BY ClosingFacts DEF OutcomeInv, Inv
<1>2. RunShows(c)
  BY <1>1 DEF AuctionSound
<1>3. PICK top \in IF pending = {} THEN {0} ELSE TopOf(a, pending) : RowsProcessed(a, pending, top)
  BY <1>1, RefundShape
<1>4. pending = {} \/ pending = DOMAIN bids[a]
  BY <1>1 DEF AuctionSound, AllOrNone, Unprocessed
<1>5. /\ status' = status /\ winner' = winner /\ winnerBid' = winnerBid /\ price' = price
      /\ settlement' = settlement /\ starting' = starting /\ terms' = terms
      /\ drops' = drops
      /\ closing' = (closing \ {c}) \cup AfterRefund(c)
      /\ c.step = "refund"
  BY DEF RefundSealed
<1>6. status[a] = "ENDED" /\ Sealed(a) /\ ~SoldDirectly(a) /\ ~English(a) /\ ~Dutch(a)
  BY <1>2, <1>5 DEF RunShows, Sealed, English
<1> HIDE DEF a, pending
<1>7. /\ Dutch(a)' = Dutch(a) /\ English(a)' = English(a) /\ Sealed(a)' = Sealed(a)
      /\ Settled(a)' = Settled(a) /\ SoldDirectly(a)' = SoldDirectly(a)
      /\ WonByBid(a)' = WonByBid(a)
  BY <1>5 DEF Dutch, English, Sealed, Settled, SoldDirectly, WonByBid
<1>8. /\ DOMAIN bids'[a] = DOMAIN bids[a]
      /\ \A i \in DOMAIN bids[a] : /\ bids'[a][i].bidder = bids[a][i].bidder
                                   /\ bids'[a][i].amount = bids[a][i].amount
                                   /\ bids'[a][i].refunded = TRUE
  <2>1. ASSUME NEW i \in DOMAIN bids[a], i \notin pending
        PROVE  bids[a][i].refunded = TRUE
    <3>1. bids[a][i].refunded \in BOOLEAN
      BY <1>1, BidRows
    <3>2. bids[a][i].refunded
      BY <2>1 DEF pending, Unprocessed
    <3> QED BY <3>1, <3>2
  <2> QED BY <1>3, <2>1 DEF RowsProcessed, RowIs
<1>9. NoOutcomeYet(a)' /\ Untouched(a)' /\ OnOffer(a)' /\ ShownIsSettled(a)'
  BY <1>1, <1>5, <1>6, <1>7
     DEF AuctionSound, NoOutcomeYet, Untouched, OnOffer, ShownIsSettled, AmountShown
<1>14. DropsKnown(a)'
  BY <1>1, <1>5, <1>6, NoDropsElsewhere DEF DropsKnown, OutcomeInv
<1>10. BestWins(a)'
  <2>1. TopOf(a, DOMAIN bids[a])' = TopOf(a, DOMAIN bids[a])
    BY <1>8 DEF TopOf
  <2>2. WonByBid(a) => winnerBid[a] \in DOMAIN bids[a]
    BY <1>1 DEF AuctionSound, BestWins, TopOf
  <2> QED BY <1>1, <1>5, <1>7, <1>8, <2>1, <2>2
          DEF AuctionSound, BestWins, MeetsReserve, DutchAboveReserve
<1>11. Confirmable(a)'
  <2>1. CASE pending = {}
    <3>1. \A i \in DOMAIN bids[a] : bids'[a][i] = bids[a][i]
      BY <1>3, <2>1 DEF RowsProcessed
    <3>2. Holding(a)' = Holding(a)
      BY <1>8, <3>1 DEF Holding, BidsWith
    <3>3. Holding(a) \subseteq DOMAIN bids[a]
      BY DEF Holding, BidsWith
    <3> QED BY <1>1, <1>5, <1>7, <1>8, <3>2, <3>3 DEF AuctionSound, Confirmable
  <2>2. CASE pending # {}
    <3>1. pending = DOMAIN bids[a] /\ top \in TopOf(a, DOMAIN bids[a])
      BY <1>3, <1>4, <2>2
    <3>2. \A i \in Holding(a)' : i = top
      BY <1>3, <1>8, <3>1 DEF Holding, BidsWith, RowsProcessed, RowIs
    <3>3. ASSUME WonByBid(a)
          PROVE  bids'[a][top].amount = price'[a]
      <4>1. winnerBid[a] \in TopOf(a, DOMAIN bids[a]) /\ bids[a][winnerBid[a]].amount = price[a]
        BY <1>1, <1>6, <3>3 DEF AuctionSound, BestWins
      <4>2. \A i \in DOMAIN bids[a] : bids[a][i].amount \in Nat
        BY <1>1, BidRows
      <4> QED BY <1>5, <1>8, <3>1, <4>1, <4>2 DEF TopOf
    <3> QED BY <1>6, <1>7, <3>2, <3>3 DEF Confirmable
  <2> QED BY <2>1, <2>2
<1>12. AllOrNone(a)'
  BY <1>8 DEF AllOrNone
<1>13. ASSUME NEW d \in closing', d.auction = a
       PROVE  RunShows(d)'
  <2>1. CASE d \in closing
    <3>1. RunShows(d)
      BY <1>1, <1>13, <2>1 DEF AuctionSound
    <3> QED BY <1>5, <1>6, <1>7, <1>8, <1>13, <3>1 DEF RunShows
  <2>2. CASE d \in AfterRefund(c)
    <3>1. c \in Closing
      BY <1>1 DEF TypeOK
    <3>2. d.winner = c.winner /\ d.bid = c.bid /\ d.step = "settle"
      BY <2>2, <3>1 DEF AfterRefund, Closing
    <3> QED BY <1>2, <1>5, <1>6, <1>7, <1>8, <1>13, <3>2 DEF RunShows, a
  <2> QED BY <1>5, <2>1, <2>2
<1> QED BY <1>9, <1>10, <1>11, <1>12, <1>13, <1>14 DEF AuctionSound, a
-----------------------------------------------------------------------------
(* Settlement                                                              *)

\* A settlement of the price by the winner leaves the auction sound.
LEMMA SettleSound ==
  ASSUME OutcomeInv, NEW a \in Auctions, WonByBid(a), ~Dutch(a), NEW b, NEW p,
         SettleWon(p, a, winner[a], price[a]),
         bids' = [bids EXCEPT ![a] = Mark(a, {b}, "WON")],
         UNCHANGED <<terms, status, winner, winnerBid, price, starting, drops>>,
         closing' \subseteq closing
  PROVE  AuctionSound(a)'
<1>1. AuctionSound(a) /\ TypeOK
  BY DEF OutcomeInv, Inv
<1>2. /\ Settled(a)' /\ ~SoldDirectly(a)'
      /\ settlement'[a].party = winner[a] /\ settlement'[a].amount = price[a]
  <2>1. CASE Settled(a)
    BY <1>1, <2>1 DEF SettleWon, AuctionSound, ShownIsSettled, AmountShown, WonByBid, Settled, SoldDirectly
  <2>2. CASE ~Settled(a)
    BY <1>1, <2>2 DEF SettleWon, Settled, SoldDirectly, NoSettlement, TypeOK
  <2> QED BY <2>1, <2>2
<1>3. /\ Dutch(a)' = Dutch(a) /\ English(a)' = English(a) /\ Sealed(a)' = Sealed(a)
      /\ WonByBid(a)'
  BY <1>2 DEF Dutch, English, Sealed, WonByBid
<1>4. /\ DOMAIN bids'[a] = DOMAIN bids[a]
      /\ \A i \in DOMAIN bids[a] : /\ bids'[a][i].bidder = bids[a][i].bidder
                                   /\ bids'[a][i].amount = bids[a][i].amount
                                   /\ bids'[a][i].refunded = bids[a][i].refunded
  <2> DEFINE s == Mark(a, {b}, "WON")
  <2>1. /\ DOMAIN s = DOMAIN bids[a]
        /\ \A i \in DOMAIN bids[a] : /\ s[i].bidder = bids[a][i].bidder
                                     /\ s[i].amount = bids[a][i].amount
                                     /\ s[i].refunded = bids[a][i].refunded
    BY <1>1, MarkFacts DEF BidStatuses
  <2>2. bids'[a] = s
    BY <1>1 DEF TypeOK
  <2> HIDE DEF s
  <2> QED BY <2>1, <2>2
<1>5. status[a] = "ENDED" /\ winner[a] # NoUser
  BY DEF WonByBid
<1>6. NoOutcomeYet(a)' /\ Untouched(a)' /\ ShownIsSettled(a)' /\ Confirmable(a)'
  BY <1>1, <1>2, <1>3, <1>5
     DEF AuctionSound, NoOutcomeYet, Untouched, ShownIsSettled, AmountShown, Confirmable
<1>11. DropsKnown(a)'
  BY NoDropsElsewhere DEF DropsKnown, OutcomeInv
<1>7. OnOffer(a)'
  BY <1>1, <1>3, <1>4, <1>5 DEF AuctionSound, OnOffer, WonByBid
<1>8. BestWins(a)'
  <2>1. TopOf(a, DOMAIN bids[a])' = TopOf(a, DOMAIN bids[a])
    BY <1>4 DEF TopOf
  <2>2. winnerBid[a] \in DOMAIN bids[a]
    BY <1>1 DEF AuctionSound, BestWins, TopOf
  <2> QED BY <1>1, <1>3, <1>4, <2>1, <2>2
          DEF AuctionSound, BestWins, MeetsReserve, DutchAboveReserve
<1>9. AllOrNone(a)'
  <2>1. \A i, j \in DOMAIN bids[a] : bids[a][i].refunded = bids[a][j].refunded
    BY <1>1 DEF AuctionSound, AllOrNone
  <2> SUFFICES ASSUME NEW i \in DOMAIN bids'[a], NEW j \in DOMAIN bids'[a]
               PROVE  bids'[a][i].refunded = bids'[a][j].refunded
    BY DEF AllOrNone
  <2>2. /\ bids'[a][i].refunded = bids[a][i].refunded
        /\ bids'[a][j].refunded = bids[a][j].refunded
        /\ bids[a][i].refunded = bids[a][j].refunded
    BY <1>4, <2>1
  <2> QED BY <2>2
<1>10. ASSUME NEW d \in closing', d.auction = a
       PROVE  RunShows(d)'
  <2>1. RunShows(d)
    BY <1>1, <1>10 DEF AuctionSound
  <2> QED BY <1>2, <1>3, <1>4, <1>10, <2>1 DEF RunShows
<1> QED BY <1>6, <1>7, <1>8, <1>9, <1>10, <1>11 DEF AuctionSound

\* The settle transaction of endAuction settles the price that was shown.
LEMMA SettleWinnerSound ==
  ASSUME OutcomeInv, NEW c \in closing, SettleWinner(c)
  PROVE  AuctionSound(c.auction)'
<1> DEFINE a == c.auction
<1>1. a \in Auctions /\ TypeOK /\ AuctionSound(a) /\ RunShows(c)
  BY ClosingFacts DEF OutcomeInv, Inv, AuctionSound
<1>2. c.winner = winner[a] /\ c.bid = winnerBid[a] /\ WonByBid(a) /\ ~Dutch(a)
  BY <1>1, ClosingFacts DEF RunShows, WonByBid, SettleWinner
<1>3. bids[a][c.bid].amount = price[a]
  BY <1>1, <1>2 DEF AuctionSound, BestWins
<1>4. /\ SettleWon(acct, a, winner[a], price[a])
      /\ bids' = [bids EXCEPT ![a] = Mark(a, {c.bid}, "WON")]
      /\ UNCHANGED <<terms, status, winner, winnerBid, price, starting, drops>>
      /\ closing' \subseteq closing
  BY <1>2, <1>3 DEF SettleWinner
<1> HIDE DEF a
<1>5. AuctionSound(a)'
  BY <1>1, <1>2, <1>4, SettleSound
<1> QED BY <1>5 DEF a

\* What the winner confirms is the price that was shown.
LEMMA ConfirmedIsPrice ==
  ASSUME OutcomeInv, NEW a \in Auctions, NEW u \in Users,
         winner[a] = u, status[a] = "ENDED", ~Settled(a), NEW b \in Payable(u, a)
  PROVE  WonByBid(a) /\ ~Dutch(a) /\ bids[a][b].amount = price[a]
<1>1. AuctionSound(a) /\ TypeOK
  BY DEF OutcomeInv, Inv
<1>2. WonByBid(a)
  BY NoUserAssumption DEF WonByBid, SoldDirectly, Settled, NoSettlement
<1> DEFINE P == {i \in Holding(a) : bids[a][i].bidder = u}
<1>3. b \in P /\ b \in DOMAIN bids[a] /\ \A j \in P : bids[a][j].amount <= bids[a][b].amount
  BY DEF Payable, TopOf, Holding, BidsWith
<1>4. ~Dutch(a) /\ \E i \in P : bids[a][i].amount = price[a]
  BY <1>1, <1>2, <1>3 DEF AuctionSound, Confirmable
<1>5. \A i \in DOMAIN bids[a] : bids[a][i].amount <= price[a]
  BY <1>1, <1>2, <1>4 DEF AuctionSound, BestWins, TopOf
<1>6. bids[a][b].amount \in Nat /\ price[a] \in Nat
  BY <1>1, <1>3, BidRows DEF TypeOK
<1> HIDE DEF P
<1> QED BY <1>2, <1>3, <1>4, <1>5, <1>6

\* The winner's confirmation settles it.
LEMMA ConfirmSound ==
  ASSUME OutcomeInv, NEW u \in Users, NEW a \in Auctions, ConfirmWinnerPayment(u, a)
  PROVE  AuctionSound(a)'
<1>1. PICK b \in Payable(u, a) :
        /\ SettleWon(acct, a, u, bids[a][b].amount)
        /\ bids' = [bids EXCEPT ![a] = Mark(a, {b}, "WON")]
  BY DEF ConfirmWinnerPayment
<1>2. winner[a] = u /\ status[a] = "ENDED" /\ ~Settled(a)
  BY DEF ConfirmWinnerPayment
<1>3. WonByBid(a) /\ ~Dutch(a) /\ bids[a][b].amount = price[a]
  BY <1>2, ConfirmedIsPrice
<1> QED BY <1>1, <1>2, <1>3, SettleSound DEF ConfirmWinnerPayment
-----------------------------------------------------------------------------
(* The drop-price job                                                      *)

\* The step changes nothing but the price of the Dutch auction a and its drop-price jobs.
PriceOnly(a) ==
  /\ Dutch(a)
  /\ UNCHANGED <<terms, acct, status, expired, winner, winnerBid, bids, settlement,
                 starting, closing>>

\* A job of auction d either ends it as endAuction does, or changes its price at most.
LEMMA DropActs ==
  ASSUME OutcomeInv, NEW a \in Auctions,
         \/ TakeDrop(a)
         \/ \E d \in drops : d.auction = a /\ (WritePrice(d) \/ EndAtFloor(d))
  PROVE  (Determined(a) /\ a \notin starting') \/ PriceOnly(a)
<1>1. TypeOK /\ Inv /\ AuctionSound(a)
  BY DEF OutcomeInv, Inv
<1>2. CASE TakeDrop(a)
  BY <1>2 DEF TakeDrop, PriceOnly
<1>3. ASSUME NEW d \in drops, d.auction = a, WritePrice(d) \/ EndAtFloor(d)
      PROVE  (Determined(a) /\ a \notin starting') \/ PriceOnly(a)
  <2>1. Dutch(a) /\ a \notin starting
    BY <1>1, <1>3 DEF Inv, DropsAreDutch, AuctionSound, DropsKnown
  <2> QED BY <1>1, <1>3, <2>1, DropShape DEF Determined, PriceOnly
<1> QED BY <1>2, <1>3

\* When nothing but the price of a Dutch auction changes, all but three parts stay.
LEMMA PriceOnlySound ==
  ASSUME OutcomeInv, NEW a \in Auctions, PriceOnly(a),
         status[a] # "ENDED" /\ DutchAboveReserve => terms[a].reservePrice <= price'[a],
         ShownIsSettled(a)', DropsKnown(a)'
  PROVE  AuctionSound(a)'
<1> USE DEF PriceOnly
<1>1. AuctionSound(a)
  BY DEF OutcomeInv
<1>2. /\ Dutch(a)' /\ ~English(a)' /\ Sealed(a)' = Sealed(a)
      /\ Settled(a)' = Settled(a) /\ SoldDirectly(a)' = SoldDirectly(a)
      /\ WonByBid(a)' = WonByBid(a)
  BY DEF Dutch, English, Sealed, Settled, SoldDirectly, WonByBid
<1>3. NoOutcomeYet(a)' /\ AllOrNone(a)'
  BY <1>1, <1>2 DEF AuctionSound, NoOutcomeYet, AllOrNone
<1>4. Untouched(a)'
  <2>1. DutchAboveReserve' = DutchAboveReserve
    BY DEF DutchAboveReserve
  <2> QED BY <1>1, <1>2, <2>1 DEF AuctionSound, Untouched
<1>5. OnOffer(a)'
  BY <1>1, <1>2 DEF AuctionSound, OnOffer
<1>6. BestWins(a)'
  BY <1>1, <1>2 DEF AuctionSound, BestWins, TopOf, MeetsReserve, DutchAboveReserve
<1>7. Confirmable(a)'
  BY <1>1, <1>2 DEF AuctionSound, Confirmable
<1>8. \A c \in closing' : c.auction # a
  BY <1>1 DEF AuctionSound, RunShows
<1> QED BY <1>3, <1>4, <1>5, <1>6, <1>7, <1>8 DEF AuctionSound

\* A job that begins reads the price of an auction on offer, and is the only one.
LEMMA TakeDropSound ==
  ASSUME OutcomeInv, Undisturbed, NEW a \in Auctions, TakeDrop(a)
  PROVE  AuctionSound(a)'
<1>1. AuctionSound(a) /\ status[a] = "ACTIVE" /\ drops = {} /\ Dutch(a)
  BY DEF OutcomeInv, TakeDrop, DropperFree, Undisturbed
<1>2. a \notin starting /\ ~Settled(a)
  BY <1>1 DEF AuctionSound, NoOutcomeYet, Untouched
<1>3. /\ PriceOnly(a) /\ price' = price
      /\ drops' = {[auction |-> a, price |-> Dropped(a)]}
  BY <1>1 DEF TakeDrop, PriceOnly
<1>4. Dropped(a)' = Dropped(a) /\ Settled(a)' = Settled(a)
  BY <1>3 DEF PriceOnly, Dropped, Settled
<1>5. DropsKnown(a)'
  BY <1>1, <1>2, <1>3, <1>4 DEF DropsKnown, PriceOnly
<1>6. ShownIsSettled(a)'
  BY <1>2, <1>4 DEF ShownIsSettled
<1>7. DutchAboveReserve => terms[a].reservePrice <= price'[a]
  BY <1>1, <1>3 DEF AuctionSound, Untouched
<1> QED BY <1>3, <1>5, <1>6, <1>7, PriceOnlySound

\* The price that the job writes is the one before it less the step, and still above the
\* floor; what an acceptance in between has paid is a step more.
LEMMA WritePriceSound ==
  ASSUME OutcomeInv, Undisturbed, NEW d \in drops, WritePrice(d)
  PROVE  AuctionSound(d.auction)'
<1> DEFINE a == d.auction
<1>1. /\ a \in Auctions /\ d.price \in Nat /\ AuctionSound(a) /\ TypeOK /\ Dutch(a)
      /\ DropsKnown(a)
  BY DEF OutcomeInv, Inv, TypeOK, Drop, DropsAreDutch, AuctionSound
<1>2. /\ ~AtFloor(a, d.price) /\ price'[a] = d.price /\ PriceOnly(a) /\ drops' = drops \ {d}
  BY <1>1 DEF WritePrice, DropDone, Undisturbed, PriceOnly, TypeOK
<1>3. terms[a].dutchPriceStep \in Nat /\ terms[a].reservePrice \in Nat /\ price[a] \in Nat
  <2>1. terms[a] \in AuctionTerms
    BY <1>1, CatalogsAssumption DEF TypeOK
  <2> QED BY <1>1, <2>1 DEF AuctionTerms, TypeOK
<1> HIDE DEF a
<1>4. DropsKnown(a)'
  BY <1>1, <1>2 DEF DropsKnown, a
<1>5. terms[a].reservePrice <= price'[a]
  BY <1>1, <1>2, <1>3 DEF AtFloor
<1>6. ShownIsSettled(a)'
  <2> SUFFICES ASSUME Settled(a)
               PROVE  ShownIsSettled(a)'
    BY <1>2 DEF PriceOnly, Settled, ShownIsSettled
  <2>1. status[a] = "ENDED" /\ settlement[a].party = winner[a]
    BY <1>1 DEF AuctionSound, ShownIsSettled
  <2>2. ASSUME ~SoldDirectly(a)
        PROVE  settlement[a].amount = price'[a] + terms[a].dutchPriceStep
    <3>1. d.price = Dropped(a) /\ settlement[a].amount = price[a] /\ d.price # 0
      BY <1>1, <1>2, <2>2 DEF DropsKnown, AtFloor, a
    <3> QED BY <1>2, <1>3, <3>1 DEF Dropped
  <2>3. AmountShown(a)'
    BY <1>1, <1>2, <2>2 DEF AmountShown, PriceOnly, SoldDirectly, Dutch
  <2> QED BY <1>2, <2>1, <2>3 DEF ShownIsSettled, PriceOnly
<1> QED BY <1>1, <1>2, <1>4, <1>5, <1>6, PriceOnlySound DEF a

\* A job that finds no price above the floor ends the auction, or finds it ended.
LEMMA EndAtFloorSound ==
  ASSUME OutcomeInv, NEW d \in drops, EndAtFloor(d)
  PROVE  AuctionSound(d.auction)'
<1> DEFINE a == d.auction
<1>1. a \in Auctions /\ AuctionSound(a) /\ TypeOK /\ a \notin starting
  BY DEF OutcomeInv, Inv, TypeOK, Drop, AuctionSound, DropsKnown
<1>2. CASE Endable(a)
  <2>1. Determined(a) /\ a \notin starting'
    BY <1>1, <1>2 DEF EndAtFloor, DropDone, Determined, TypeOK
  <2> QED BY <1>1, <2>1, DeterminedSound
<1>3. CASE ~Endable(a)
  <2>1. SameAuction(a)
    BY <1>3 DEF EndAtFloor, DropDone, SameAuction
  <2> QED BY <1>1, <2>1, SameSound
<1> QED BY <1>2, <1>3
-----------------------------------------------------------------------------
(* Every step keeps every auction sound                                    *)

Others(d) == \A a \in Auctions \ {d} : SameAuction(a)

\* Bids, direct sales, confirmations and cancellations concern one auction.
LEMMA UserOthers ==
  ASSUME TypeOK, NEW u \in Users, NEW d \in Auctions,
         \/ \E amount \in BidAmounts : PlaceBid(u, d, amount) \/ AcceptDutch(u, d, amount)
         \/ BuyNow(u, d)
         \/ ConfirmWinnerPayment(u, d)
         \/ CancelAuction(d)
  PROVE  Others(d)
<1> SUFFICES ASSUME NEW a \in Auctions, a # d
             PROVE  SameAuction(a)
  BY DEF Others
<1>1. ASSUME NEW amount \in BidAmounts, PlaceBid(u, d, amount)
      PROVE  SameAuction(a)
  BY <1>1 DEF PlaceBid, SameAuction, TypeOK
<1>2. ASSUME NEW amount \in BidAmounts, AcceptDutch(u, d, amount)
      PROVE  SameAuction(a)
  BY <1>2 DEF AcceptDutch, SettleWon, SameAuction, TypeOK
<1>3. CASE BuyNow(u, d)
  BY <1>3 DEF BuyNow, SameAuction, TypeOK
<1>4. CASE ConfirmWinnerPayment(u, d)
  BY <1>4 DEF ConfirmWinnerPayment, SettleWon, SameAuction, TypeOK
<1>5. CASE CancelAuction(d)
  BY <1>5 DEF CancelAuction, SameAuction, TypeOK
<1> QED BY <1>1, <1>2, <1>3, <1>4, <1>5

\* So do the jobs of the scheduler.
LEMMA JobOthers ==
  ASSUME TypeOK, NEW d \in Auctions, ReadPending(d) \/ WriteActive(d) \/ Determined(d)
  PROVE  Others(d)
<1> SUFFICES ASSUME NEW a \in Auctions, a # d
             PROVE  SameAuction(a)
  BY DEF Others
<1>1. CASE ReadPending(d)
  BY <1>1 DEF ReadPending, SameAuction
<1>2. CASE WriteActive(d)
  BY <1>2 DEF WriteActive, SameAuction, TypeOK
<1>3. CASE Determined(d)
  <2>1. PICK b \in Leading(d) : Determine(d, b)
    BY <1>3 DEF Determined
  <2>2. PICK w : /\ status' = [status EXCEPT ![d] = "ENDED"]
                 /\ winner' = [winner EXCEPT ![d] = w]
                 /\ winnerBid' = [winnerBid EXCEPT ![d] = IF w = NoUser THEN 0 ELSE b]
                 /\ price' = [price EXCEPT ![d] = IF w = NoUser THEN price[d] ELSE bids[d][b].amount]
                 /\ closing' = closing \cup Remaining(d, w, b)
    BY <2>1 DEF Determine
  <2>3. \A c \in Remaining(d, w, b) : c.auction = d
    BY RemainingShows
  <2> QED BY <1>3, <2>2, <2>3 DEF Determined, SameAuction, TypeOK
<1> QED BY <1>1, <1>2, <1>3

\* So do the drop-price jobs.
LEMMA DropOthers ==
  ASSUME TypeOK, NEW a \in Auctions,
         \/ TakeDrop(a)
         \/ \E d \in drops : d.auction = a /\ (WritePrice(d) \/ EndAtFloor(d))
  PROVE  Others(a)
<1>1. CASE TakeDrop(a)
  BY <1>1 DEF TakeDrop, Others, SameAuction
<1>2. ASSUME NEW d \in drops, d.auction = a, WritePrice(d) \/ EndAtFloor(d)
      PROVE  Others(a)
  <2>1. CASE Determined(a)
    BY <2>1, JobOthers
  <2>2. CASE ~Determined(a)
    BY <1>2, <2>2, DropShape DEF Others, SameAuction, TypeOK
  <2> QED BY <2>1, <2>2
<1> QED BY <1>1, <1>2

\* So do the later transactions of a run of endAuction.
LEMMA RunOthers ==
  ASSUME TypeOK, NEW c \in closing, RefundSealed(c) \/ SettleWinner(c)
  PROVE  Others(c.auction)
<1> SUFFICES ASSUME NEW a \in Auctions, a # c.auction
             PROVE  SameAuction(a)
  BY DEF Others
<1>1. c.auction \in Auctions
  BY ClosingFacts
<1>2. CASE RefundSealed(c)
  <2>1. \A d \in AfterRefund(c) : d.auction = c.auction
    BY DEF AfterRefund, TypeOK, Closing
  <2>2. bids'[a] = bids[a]
    BY <1>1, <1>2 DEF RefundSealed, TypeOK
  <2>3. /\ closing' = (closing \ {c}) \cup AfterRefund(c)
        /\ UNCHANGED <<terms, status, winner, winnerBid, price, settlement, starting, drops>>
    BY <1>2 DEF RefundSealed
  <2> QED BY <2>1, <2>2, <2>3 DEF SameAuction
<1>3. CASE SettleWinner(c)
  BY <1>1, <1>3 DEF SettleWinner, SettleWon, SameAuction, TypeOK
<1> QED BY <1>2, <1>3

\* The steps that concern no auction's bids or outcome.
QuietStep ==
  \/ UNCHANGED vars
  \/ \E d \in Auctions : \/ \E action \in Moderations : ModerateAuction(d, action)
                         \/ EndJobReturns(d) \/ Expire(d)
  \/ \E d \in drops : DropFails(d)
  \/ \E c \in closing : (\E kind \in FaultKinds : Redeliver(c, kind)) \/ Abort(c)
  \/ \E u \in Users, amount \in Transfers :
       Deposit(u, amount) \/ WriteDepositRow(u, amount) \/ Withdraw(u, amount)

\* They leave all auctions alone: no admin overwrites a status.
LEMMA QuietSteps ==
  ASSUME TypeOK, Undisturbed, NEW a \in Auctions, QuietStep
  PROVE  SameAuction(a)
<1>1. CASE UNCHANGED vars
  BY <1>1 DEF vars, SameAuction
<1>2. CASE \E d \in Auctions : \/ \E action \in Moderations : ModerateAuction(d, action)
                               \/ EndJobReturns(d) \/ Expire(d)
  BY <1>2 DEF Undisturbed, EndJobReturns, Expire, SameAuction
<1>3. CASE \E c \in closing : (\E kind \in FaultKinds : Redeliver(c, kind)) \/ Abort(c)
  BY <1>3 DEF Redeliver, Abort, SameAuction
<1>4. CASE \E u \in Users, amount \in Transfers :
             Deposit(u, amount) \/ WriteDepositRow(u, amount) \/ Withdraw(u, amount)
  BY <1>4 DEF Deposit, WriteDepositRow, Withdraw, SameAuction
<1>5. CASE \E d \in drops : DropFails(d)
  BY <1>5 DEF DropFails, SameAuction
<1> QED BY <1>1, <1>2, <1>3, <1>4, <1>5 DEF QuietStep

\* The auction, if any, that a step concerns.
Concerned(d) ==
  \/ \E u \in Users : \/ \E amount \in BidAmounts : PlaceBid(u, d, amount) \/ AcceptDutch(u, d, amount)
                      \/ BuyNow(u, d)
                      \/ ConfirmWinnerPayment(u, d)
  \/ CancelAuction(d) \/ ReadPending(d) \/ WriteActive(d) \/ EndAuction(d)
  \/ TakeDrop(d) \/ \E e \in drops : e.auction = d /\ (WritePrice(e) \/ EndAtFloor(e))
  \/ \E c \in closing : c.auction = d /\ (RefundSealed(c) \/ SettleWinner(c))

\* A step concerns one auction or none.
LEMMA StepConcerns ==
  ASSUME TypeOK, Undisturbed, [Next]_vars
  PROVE  QuietStep \/ \E d \in Auctions : Concerned(d) /\ Others(d)
<1>1. ASSUME NEW u \in Users, NEW d \in Auctions,
             \/ \E amount \in BidAmounts : PlaceBid(u, d, amount) \/ AcceptDutch(u, d, amount)
             \/ BuyNow(u, d)
             \/ ConfirmWinnerPayment(u, d)
      PROVE  Concerned(d) /\ Others(d)
  BY <1>1, UserOthers DEF Concerned
<1>2. ASSUME NEW d \in Auctions, CancelAuction(d)
      PROVE  Concerned(d) /\ Others(d)
  <2>1. Seller(d) \in Users
    BY CatalogsAssumption DEF TypeOK, Seller, AuctionTerms
  <2> QED BY <1>2, <2>1, UserOthers DEF Concerned
<1>3. ASSUME NEW d \in Auctions, ReadPending(d) \/ WriteActive(d) \/ EndAuction(d)
      PROVE  Concerned(d) /\ Others(d)
  BY <1>3, EndDetermines, JobOthers DEF Concerned
<1>5. ASSUME NEW d \in Auctions, TakeDrop(d)
      PROVE  Concerned(d) /\ Others(d)
  BY <1>5, DropOthers DEF Concerned
<1>6. ASSUME NEW e \in drops, WritePrice(e) \/ EndAtFloor(e)
      PROVE  e.auction \in Auctions /\ Concerned(e.auction) /\ Others(e.auction)
  <2>1. e.auction \in Auctions
    BY DEF TypeOK, Drop
  <2> QED BY <1>6, <2>1, DropOthers DEF Concerned
<1>4. ASSUME NEW c \in closing, RefundSealed(c) \/ SettleWinner(c)
      PROVE  c.auction \in Auctions /\ Concerned(c.auction) /\ Others(c.auction)
  BY <1>4, RunOthers, ClosingFacts DEF Concerned
<1> QED BY <1>1, <1>2, <1>3, <1>4, <1>5, <1>6 DEF Next, QuietStep

\* The auction that a step concerns stays sound.
LEMMA ConcernedSound ==
  ASSUME OutcomeInv, Undisturbed, NEW d \in Auctions, Concerned(d)
  PROVE  AuctionSound(d)'
<1>1. ASSUME NEW u \in Users, NEW amount \in BidAmounts,
             PlaceBid(u, d, amount) \/ AcceptDutch(u, d, amount)
      PROVE  AuctionSound(d)'
  BY <1>1, PlaceBidSound, AcceptDutchSound
<1>2. ASSUME NEW u \in Users, BuyNow(u, d) \/ ConfirmWinnerPayment(u, d)
      PROVE  AuctionSound(d)'
  BY <1>2, BuyNowSound, ConfirmSound
<1>3. CASE CancelAuction(d) \/ ReadPending(d) \/ WriteActive(d) \/ EndAuction(d)
  BY <1>3, CancelAuctionSound, StartSound, EndAuctionSound
<1>4. ASSUME NEW c \in closing, c.auction = d, RefundSealed(c) \/ SettleWinner(c)
      PROVE  AuctionSound(d)'
  <2>1. AuctionSound(c.auction)'
    BY <1>4, RefundSound, SettleWinnerSound
  <2> QED BY <1>4, <2>1
<1>5. CASE TakeDrop(d)
  BY <1>5, TakeDropSound
<1>6. ASSUME NEW e \in drops, e.auction = d, WritePrice(e) \/ EndAtFloor(e)
      PROVE  AuctionSound(d)'
  <2>1. AuctionSound(e.auction)'
    BY <1>6, WritePriceSound, EndAtFloorSound
  <2> QED BY <1>6, <2>1
<1> QED BY <1>1, <1>2, <1>3, <1>4, <1>5, <1>6 DEF Concerned

\* The states right after createAuction are sound.
LEMMA InitSound ==
  ASSUME Init, NEW a \in Auctions
  PROVE  AuctionSound(a)
<1>1. /\ status[a] # "ENDED" /\ status[a] # "CANCELLED" /\ ~Settled(a) /\ winner[a] = NoUser
      /\ winnerBid[a] = 0 /\ closing = {} /\ starting = {} /\ drops = {}
      /\ bids[a] = <<>> /\ price[a] = terms[a].startingPrice
  BY DEF Init, Settled
<1>2. DOMAIN bids[a] = {}
  BY <1>1
<1>3. Dutch(a) /\ DutchAboveReserve => terms[a].reservePrice <= price[a]
  BY <1>1 DEF Init, Dutch, DutchAboveReserve
<1> QED BY <1>1, <1>2, <1>3
    DEF AuctionSound, NoOutcomeYet, Untouched, OnOffer, BestWins, Confirmable,
       AllOrNone, ShownIsSettled, DropsKnown, WonByBid

\* Every step keeps every auction sound.
LEMMA NextSound ==
  ASSUME Undisturbed, OutcomeInv, [Next]_vars
  PROVE  \A a \in Auctions : AuctionSound(a)'
<1>1. TypeOK /\ \A a \in Auctions : AuctionSound(a)
  BY DEF OutcomeInv, Inv
<1>2. CASE QuietStep
  BY <1>1, <1>2, SameSound, QuietSteps
<1>3. ASSUME NEW d \in Auctions, Concerned(d), Others(d)
      PROVE  \A a \in Auctions : AuctionSound(a)'
  <2>1. AuctionSound(d)'
    BY <1>3, ConcernedSound
  <2>2. \A a \in Auctions \ {d} : AuctionSound(a)'
    BY <1>1, <1>3, SameSound DEF Others
  <2> QED BY <2>1, <2>2
<1> QED BY <1>1, <1>2, <1>3, StepConcerns

\* The invariant of the outcome holds throughout.
THEOREM OutcomeInvCorrect ==
  ASSUME Undisturbed
  PROVE  Spec => []OutcomeInv
<1>1. Init => \A a \in Auctions : AuctionSound(a)
  BY InitSound
<1>2. OutcomeInv /\ [Next]_vars => (\A a \in Auctions : AuctionSound(a))'
  BY NextSound
<1>3. OutcomeInv <=> Inv /\ EnglishBidsClimb /\ \A a \in Auctions : AuctionSound(a)
  BY DEF OutcomeInv
<1> QED BY <1>1, <1>2, <1>3, InvCorrect, EnglishAuctionsClimb, PTL DEF Spec

\* An ended auction shows its outcome for good.
LEMMA EndedStays ==
  ASSUME Undisturbed, OutcomeInv, [Next]_vars, NEW a \in Auctions, status[a] = "ENDED"
  PROVE  /\ status'[a] = "ENDED"
         /\ winner'[a] = winner[a]
         /\ winnerBid'[a] = winnerBid[a]
         /\ \/ price'[a] = price[a]
            \/ Dutch(a) /\ [auction |-> a, price |-> price'[a]] \in drops
<1>1. Inv /\ TypeOK /\ AuctionSound(a)
  BY DEF OutcomeInv, Inv
<1>2. a \notin starting
  BY <1>1 DEF AuctionSound, Untouched
<1>3. CASE SameAuction(a)
  BY <1>3 DEF SameAuction
<1>4. CASE Concerned(a)
  <2>1. ~ (\E u \in Users : \/ \E amount \in BidAmounts : PlaceBid(u, a, amount)
                                                          \/ AcceptDutch(u, a, amount)
                            \/ BuyNow(u, a))
    BY DEF PlaceBid, AcceptDutch, CanBid, BuyNow
  <2>2. ~ (CancelAuction(a) \/ ReadPending(a) \/ WriteActive(a) \/ EndAuction(a))
    BY <1>2 DEF CancelAuction, ReadPending, WriteActive, EndAuction, Endable
  <2>4. CASE TakeDrop(a)
    BY <2>4 DEF TakeDrop
  <2>5. ASSUME NEW e \in drops, e.auction = a, EndAtFloor(e)
        PROVE  UNCHANGED <<status, winner, winnerBid, price>>
    BY <2>5 DEF EndAtFloor, Endable
  <2>6. ASSUME NEW e \in drops, e.auction = a, WritePrice(e)
        PROVE  /\ UNCHANGED <<status, winner, winnerBid>>
               /\ Dutch(a) /\ [auction |-> a, price |-> price'[a]] \in drops
    <3>1. e = [auction |-> a, price |-> e.price]
      BY <1>1, <2>6 DEF TypeOK, Drop
    <3>2. price'[a] = e.price /\ Dutch(a)
      BY <1>1, <2>6 DEF WritePrice, TypeOK, Inv, DropsAreDutch
    <3> QED BY <2>6, <3>1, <3>2 DEF WritePrice
  <2>3. \/ \E u \in Users : ConfirmWinnerPayment(u, a)
        \/ \E c \in closing : RefundSealed(c) \/ SettleWinner(c)
        \/ TakeDrop(a) \/ \E e \in drops : e.auction = a /\ (WritePrice(e) \/ EndAtFloor(e))
    BY <1>4, <2>1, <2>2 DEF Concerned
  <2> QED BY <2>3, <2>4, <2>5, <2>6 DEF ConfirmWinnerPayment, RefundSealed, SettleWinner
<1>5. CASE QuietStep
  BY <1>1, <1>3, <1>5, QuietSteps
<1>6. CASE \E d \in Auctions : Concerned(d) /\ Others(d)
  BY <1>3, <1>4, <1>6 DEF Others
<1> QED BY <1>1, <1>5, <1>6, StepConcerns

\* With one server process and no admin overwriting statuses, what an ended auction
\* shows (status, winner, winning bid, price) never changes again, whatever
\* cancellations, redelivered jobs, confirmations and late bids do; only the price of a
\* Dutch auction may still become what a drop-price job, having read the row before the
\* end, writes without looking again.
THEOREM FirstOutcomeIsFinal ==
  ASSUME Undisturbed
  PROVE  Spec => OutcomeFinal
<1>1. OutcomeInv /\ [Next]_vars =>
        [\A a \in Auctions : status[a] = "ENDED" =>
           /\ status'[a] = "ENDED"
           /\ winner'[a] = winner[a]
           /\ winnerBid'[a] = winnerBid[a]
           /\ \/ price'[a] = price[a]
              \/ Dutch(a) /\ [auction |-> a, price |-> price'[a]] \in drops]_vars
  BY EndedStays
<1> QED BY <1>1, OutcomeInvCorrect, PTL DEF Spec, OutcomeFinal

\* With one server process and no admin overwriting statuses, the winner of an ended
\* auction made the highest bid, and it meets the reserve; a Dutch auction must have
\* been listed at its reserve or above, which createAuction does not check.
THEOREM BestBidAlwaysWins ==
  ASSUME Undisturbed, DutchAboveReserve
  PROVE  Spec => []BestBidWins
<1>1. OutcomeInv => BestBidWins
  BY DEF OutcomeInv, AuctionSound, BestWins, WonByBid, SoldDirectly, BestBidWins
<1> QED BY <1>1, OutcomeInvCorrect, PTL

-----------------------------------------------------------------------------
(* What backs a hold                                                       *)

\* A sealed auction ended with two best bids: the determination and the refund
\* transaction may then pick different ones.
Tied(a) ==
  Sealed(a) /\ status[a] = "ENDED" /\ \E i, j \in TopOf(a, DOMAIN bids[a]) : i # j

\* A bid that is WON and not paid for is the only one that holds.
LoneWon(a) ==
  \A i, j \in DOMAIN bids[a] :
    bids[a][i].status = "WON" /\ ~PaidFor(a, i) /\ i # j => j \notin Holding(a)

\* The winning bid holds until it is paid for, and then it is WON; a Dutch auction
\* is paid for as it is won.
WinnerHolds(a) ==
  WonByBid(a) => /\ winnerBid[a] \in Holding(a)
                 /\ Settled(a) => bids[a][winnerBid[a]].status = "WON"
                 /\ Dutch(a) => Settled(a)

\* Before the refund transaction the bids of a sealed auction are WINNING, or paid
\* for by the best bidder, or OUTBID by a cancellation that refunded them.
SealedRows(a) ==
  Sealed(a) => \A i \in DOMAIN bids[a] : ~bids[a][i].refunded =>
    /\ bids[a][i].status = "WON" => PaidFor(a, i) /\ i \in TopOf(a, DOMAIN bids[a])
    /\ bids[a][i].status = "OUTBID" => acct[bids[a][i].bidder].refunds > 0
    /\ bids[a][i].status # "LOST"

HoldsSound(a) == ~Tied(a) => LoneWon(a) /\ WinnerHolds(a) /\ SealedRows(a)

\* The positions of the bids of u whose amounts should be on hold, and their sum.
Amounts(a)    == [i \in DOMAIN bids[a] |-> bids[a][i].amount]
Backed(a, u)  == {i \in Standing(a) : bids[a][i].bidder = u}
Backing(a, u) == SumFunctionOnSet(Amounts(a), Backed(a, u))

\* What HeldBacksBids says of auctions that did not end in a tie.
HeldBacked ==
  (\A a \in Auctions : ~Tied(a)) =>
    \A u \in Users : NotRefundedSealed(u) =>
      acct[u].held = SumFunctionOnSet([a \in Auctions |-> Backing(a, u)], Auctions)

HoldsInv == OutcomeInv /\ (\A a \in Auctions : HoldsSound(a)) /\ HeldBacked

\* The bids that back a hold are bids, and their sum is an amount.
BackingTyped ==
  \A a \in Auctions, u \in Users :
    /\ Backed(a, u) \subseteq DOMAIN bids[a] /\ IsFiniteSet(Backed(a, u))
    /\ IsFiniteSet(DOMAIN bids[a])
    /\ \A i \in DOMAIN bids[a] : Amounts(a)[i] = bids[a][i].amount /\ Amounts(a)[i] \in Nat
    /\ Backing(a, u) \in Int

LEMMA BackingFacts == TypeOK => BackingTyped
<1> SUFFICES ASSUME TypeOK, NEW a \in Auctions, NEW u \in Users
             PROVE  /\ Backed(a, u) \subseteq DOMAIN bids[a] /\ IsFiniteSet(Backed(a, u))
                    /\ IsFiniteSet(DOMAIN bids[a])
                    /\ \A i \in DOMAIN bids[a] : /\ Amounts(a)[i] = bids[a][i].amount
                                                 /\ Amounts(a)[i] \in Nat
                    /\ Backing(a, u) \in Int
  BY DEF BackingTyped
<1>1. Backed(a, u) \subseteq DOMAIN bids[a]
  BY DEF Backed, Standing, BidsWith
<1>2. IsFiniteSet(DOMAIN bids[a])
  BY BidRows, FS_Interval
<1>3. IsFiniteSet(Backed(a, u))
  BY <1>1, <1>2, FS_Subset
<1>4. \A i \in DOMAIN bids[a] : Amounts(a)[i] = bids[a][i].amount /\ Amounts(a)[i] \in Nat
  BY BidRows DEF Amounts
<1>5. Backing(a, u) \in Int
  BY <1>1, <1>3, <1>4, SumType DEF Backing
<1> QED BY <1>1, <1>2, <1>3, <1>4, <1>5

\* The same in the next state.
LEMMA BackingFactsNext == TypeOK' => BackingTyped'
BY BackingFacts, PTL

\* What the step that concerns auction d does: nobody is refunded less, and the holds
\* change by what the backing of d changes.
HoldsKept(d) ==
  /\ \A u \in Users : acct'[u].refunds >= acct[u].refunds
  /\ HoldsSound(d)'
  /\ \A u \in Users : NotRefundedSealed(u)' /\ ~Tied(d)' =>
       acct'[u].held = acct[u].held + (Backing(d, u)' - Backing(d, u))

\* Rows keep their amounts, and the bids that back u's hold change in one or two places.
LEMMA BackingMoves ==
  ASSUME TypeOK, TypeOK', NEW d \in Auctions, NEW u \in Users, NEW x, NEW y,
         Backed(d, u) \ {x} = Backed(d, u)' \ {y},
         \A i \in DOMAIN bids[d] : i \in DOMAIN bids'[d] /\ bids'[d][i].amount = bids[d][i].amount
  PROVE  Backing(d, u)' - (IF y \in Backed(d, u)' THEN bids'[d][y].amount ELSE 0)
           = Backing(d, u) - (IF x \in Backed(d, u) THEN bids[d][x].amount ELSE 0)
<1> DEFINE f == Amounts(d)
           g == Amounts(d)'
           S == Backed(d, u)
           T == Backed(d, u)'
<1>1. /\ S \subseteq DOMAIN bids[d] /\ IsFiniteSet(S)
      /\ \A i \in DOMAIN bids[d] : f[i] = bids[d][i].amount /\ f[i] \in Nat
  BY BackingFacts DEF BackingTyped
<1>2. /\ T \subseteq DOMAIN bids'[d] /\ IsFiniteSet(T)
      /\ \A i \in DOMAIN bids'[d] : g[i] = bids'[d][i].amount /\ g[i] \in Nat
  BY BackingFactsNext DEF BackingTyped
<1>3. Backing(d, u) = SumFunctionOnSet(f, S) /\ Backing(d, u)' = SumFunctionOnSet(g, T)
  BY DEF Backing
<1> HIDE DEF f, g, S, T
<1>4. /\ \A z \in S : f[z] \in Int
      /\ \A z \in T : g[z] \in Int
      /\ \A z \in S \ {x} : f[z] = g[z]
  BY <1>1, <1>2
<1>5. S \ {x} = T \ {y}
  BY DEF S, T
<1>6. SumFunctionOnSet(g, T) - (IF y \in T THEN g[y] ELSE 0)
        = SumFunctionOnSet(f, S) - (IF x \in S THEN f[x] ELSE 0)
  BY <1>1, <1>2, <1>4, <1>5, SumExchange
<1>7. /\ (IF y \in T THEN g[y] ELSE 0) = (IF y \in T THEN bids'[d][y].amount ELSE 0)
      /\ (IF x \in S THEN f[x] ELSE 0) = (IF x \in S THEN bids[d][x].amount ELSE 0)
  BY <1>1, <1>2
<1> QED BY <1>3, <1>6, <1>7 DEF S, T

\* The same bids back the hold before and after.
LEMMA BackingStays ==
  ASSUME TypeOK, TypeOK', NEW d \in Auctions, NEW u \in Users,
         Backed(d, u)' = Backed(d, u),
         \A i \in DOMAIN bids[d] : i \in DOMAIN bids'[d] /\ bids'[d][i].amount = bids[d][i].amount
  PROVE  Backing(d, u)' = Backing(d, u)
<1>1. 0 \notin Backed(d, u)
  BY BidRows DEF Backed, Standing, BidsWith
<1>2. Backing(d, u)' - (IF 0 \in Backed(d, u)' THEN bids'[d][0].amount ELSE 0)
           = Backing(d, u) - (IF 0 \in Backed(d, u) THEN bids[d][0].amount ELSE 0)
  BY BackingMoves
<1>3. Backing(d, u) \in Int /\ Backing(d, u)' \in Int
  BY BackingFacts, BackingFactsNext DEF BackingTyped
<1> QED BY <1>1, <1>2, <1>3

\* An auction that has not ended is unsettled, and its WINNING bids are those that
\* should be backed.
LEMMA OnOfferFacts ==
  ASSUME OutcomeInv, NEW d \in Auctions, status[d] # "ENDED"
  PROVE  /\ TypeOK /\ AuctionSound(d) /\ ~Settled(d)
         /\ \A i \in DOMAIN bids[d] :
              ~bids[d][i].refunded /\ bids[d][i].status \in {"WINNING", "OUTBID"}
         /\ Standing(d) = BidsWith(d, "WINNING")
<1>1. TypeOK /\ AuctionSound(d)
  BY DEF OutcomeInv, Inv
<1>2. /\ ~Settled(d)
      /\ \A i \in DOMAIN bids[d] :
           ~bids[d][i].refunded /\ bids[d][i].status \in {"WINNING", "OUTBID"}
  BY <1>1 DEF AuctionSound, NoOutcomeYet
<1>3. Standing(d) = BidsWith(d, "WINNING")
  BY <1>2 DEF Standing, BidsWith, PaidFor
<1> QED BY <1>1, <1>2, <1>3

\* placeBid exchanges the hold of the displaced bid for that of the new one.
LEMMA PlaceBidHolds ==
  ASSUME HoldsInv, TypeOK', NEW u \in Users, NEW d \in Auctions, NEW amount \in BidAmounts,
         PlaceBid(u, d, amount)
  PROVE  HoldsKept(d)
<1> DEFINE n == Len(bids[d])
<1>1. /\ OutcomeInv /\ status[d] = "ACTIVE" /\ ~Dutch(d) /\ amount \in Nat /\ n \in Nat
      /\ DOMAIN bids[d] = 1 .. n
      /\ status' = status /\ settlement' = settlement /\ terms' = terms
  <2>1. OutcomeInv /\ TypeOK
    BY DEF HoldsInv, OutcomeInv, Inv
  <2> QED BY <2>1, BidRows, AmountsAssumption DEF PlaceBid, CanBid
<1>2. /\ TypeOK /\ AuctionSound(d) /\ ~Settled(d)
      /\ \A i \in DOMAIN bids[d] : bids[d][i].status \in {"WINNING", "OUTBID"}
      /\ Standing(d) = BidsWith(d, "WINNING")
  BY <1>1, OnOfferFacts
<1>3. PICK prev \in Displaced(d) : /\ acct' = Hold(AfterRelease(d, prev), u, amount)
                                   /\ BidAdded(d, prev, u, amount, "WINNING")
  BY <1>2, PlaceBidShape
<1>4. /\ prev # 0 => prev \in BidsWith(d, "WINNING") /\ English(d)
      /\ AfterRelease(d, prev) \in [Users -> Account]
  BY <1>2, <1>3, AfterReleaseFacts DEF KeepsBooks
<1>5. /\ DOMAIN bids'[d] = 1 .. (n + 1)
      /\ RowIs(d, n + 1, u, amount, "WINNING", FALSE)
      /\ \A i \in DOMAIN bids[d] :
           RowIs(d, i, bids[d][i].bidder, bids[d][i].amount,
                 IF i = prev THEN "OUTBID" ELSE bids[d][i].status, bids[d][i].refunded)
  BY <1>3 DEF BidAdded
<1>6. \A i \in DOMAIN bids'[d] : bids'[d][i].status \in {"WINNING", "OUTBID"}
  BY <1>1, <1>2, <1>5 DEF RowIs
<1>7. Standing(d)' = {i \in DOMAIN bids'[d] : bids'[d][i].status = "WINNING"}
  BY <1>6 DEF Standing, BidsWith, PaidFor
<1> DEFINE back(v) == IF prev # 0 /\ v = bids[d][prev].bidder THEN bids[d][prev].amount ELSE 0
           take(v) == IF v = u THEN amount ELSE 0
<1>8. ASSUME NEW v \in Users
      PROVE  /\ acct'[v].held = acct[v].held - back(v) + take(v)
             /\ acct'[v].refunds = acct[v].refunds
  <2>1. /\ acct'[v].held = AfterRelease(d, prev)[v].held + take(v)
        /\ acct'[v].refunds = AfterRelease(d, prev)[v].refunds
    BY <1>1, <1>3, <1>4, WalletHolds
  <2>2. acct[v] \in Account /\ acct[v].held \in Int
    BY <1>2, ColumnTypes DEF TypeOK
  <2>3. CASE prev = 0
    BY <2>1, <2>2, <2>3 DEF AfterRelease
  <2>4. CASE prev # 0
    <3>1. bids[d][prev].bidder \in Users /\ bids[d][prev].amount \in Nat
      BY <1>2, <1>4, <2>4, BidRows DEF BidsWith
    <3> DEFINE b == bids[d][prev].bidder
               m == bids[d][prev].amount
    <3>2. acct \in [Users -> Account]
      BY <1>2 DEF TypeOK
    <3>3. AfterRelease(d, prev) = Release(acct, b, m) /\ back(v) = IF v = b THEN m ELSE 0
      BY <2>4 DEF AfterRelease
    <3> HIDE DEF b, m
    <3>4. /\ Release(acct, b, m)[v].held = acct[v].held - (IF v = b THEN m ELSE 0)
          /\ Release(acct, b, m)[v].refunds = acct[v].refunds
      BY <3>1, <3>2, WalletHolds DEF b, m
    <3> QED BY <2>1, <3>3, <3>4
  <2> QED BY <2>3, <2>4
<1>9. ASSUME NEW v \in Users
      PROVE  acct'[v].held = acct[v].held + (Backing(d, v)' - Backing(d, v))
  <2>1. Backed(d, v) \ {prev} = Backed(d, v)' \ {n + 1}
    BY <1>1, <1>2, <1>5, <1>7 DEF Backed, BidsWith, RowIs
  <2>2. \A i \in DOMAIN bids[d] : i \in DOMAIN bids'[d] /\ bids'[d][i].amount = bids[d][i].amount
    BY <1>1, <1>5 DEF RowIs
  <2>3. Backing(d, v)' - (IF n + 1 \in Backed(d, v)' THEN bids'[d][n + 1].amount ELSE 0)
           = Backing(d, v) - (IF prev \in Backed(d, v) THEN bids[d][prev].amount ELSE 0)
    BY <1>2, <2>1, <2>2, BackingMoves
  <2>4. (IF n + 1 \in Backed(d, v)' THEN bids'[d][n + 1].amount ELSE 0) = take(v)
    BY <1>1, <1>5, <1>7 DEF Backed, RowIs
  <2>5. (IF prev \in Backed(d, v) THEN bids[d][prev].amount ELSE 0) = back(v)
    BY <1>1, <1>2, <1>4 DEF Backed, BidsWith
  <2>6. Backing(d, v) \in Int /\ Backing(d, v)' \in Int /\ acct[v].held \in Int
    BY <1>2, BackingFacts, BackingFactsNext, ColumnTypes DEF BackingTyped, TypeOK
  <2>7. back(v) \in Int /\ take(v) \in Int
    BY <1>1, <1>2, <1>4, BidRows DEF BidsWith
  <2>8. acct'[v].held = acct[v].held - back(v) + take(v)
    BY <1>8
  <2>9. Backing(d, v)' - take(v) = Backing(d, v) - back(v)
    BY <2>3, <2>4, <2>5
  <2> HIDE DEF back, take
  <2> QED BY <2>6, <2>7, <2>8, <2>9
<1>10. HoldsSound(d)'
  <2>1. ~WonByBid(d)'
    BY <1>1 DEF WonByBid
  <2>2. SealedRows(d)'
    <3>1. SUFFICES ASSUME Sealed(d)
                   PROVE  \A i \in DOMAIN bids'[d] : bids'[d][i].status = "WINNING"
      BY <1>1 DEF SealedRows, Sealed
    <3>2. prev = 0
      BY <1>4, <3>1 DEF Sealed, English
    <3> QED BY <1>1, <1>2, <1>5, <3>1, <3>2 DEF RowIs, AuctionSound, OnOffer
  <2>3. LoneWon(d)'
    BY <1>6 DEF LoneWon
  <2> QED BY <2>1, <2>2, <2>3 DEF HoldsSound, WinnerHolds
<1>11. \A v \in Users : acct'[v].refunds >= acct[v].refunds
  <2>1. \A v \in Users : acct[v].refunds \in Nat
    BY <1>2, ColumnTypes DEF TypeOK
  <2> QED BY <1>8, <2>1
<1> QED BY <1>9, <1>10, <1>11 DEF HoldsKept

\* A Dutch acceptance takes its hold and pays with it.
LEMMA AcceptDutchHolds ==
  ASSUME HoldsInv, TypeOK', NEW u \in Users, NEW d \in Auctions, NEW amount \in BidAmounts,
         AcceptDutch(u, d, amount)
  PROVE  HoldsKept(d)
<1>1. /\ OutcomeInv /\ TypeOK /\ Dutch(d) /\ status[d] = "ACTIVE" /\ amount \in Nat
      /\ acct \in [Users -> Account] /\ Seller(d) \in Users
  BY AmountsAssumption, CatalogsAssumption
     DEF HoldsInv, OutcomeInv, Inv, AcceptDutch, CanBid, TypeOK, Seller, AuctionTerms
<1>2. ~Settled(d) /\ bids[d] = <<>> /\ Standing(d) = BidsWith(d, "WINNING")
  BY <1>1, OnOfferFacts DEF AuctionSound, Untouched
<1>3. DOMAIN bids[d] = {} /\ DOMAIN bids'[d] = {1} /\ RowIs(d, 1, u, amount, "WON", FALSE)
  <2>1. BidAdded(d, 0, u, amount, "WON") /\ Len(bids[d]) = 0
    BY <1>1, <1>2, AcceptDutchShape, EmptySeq
  <2>2. 1 .. (0 + 1) = {1} /\ 0 + 1 = 1
    OBVIOUS
  <2>3. DOMAIN bids[d] = {}
    BY <1>2
  <2> QED BY <2>1, <2>2, <2>3 DEF BidAdded
<1>4. /\ settlement'[d] = [party |-> u, amount |-> amount, kind |-> "WON_AUCTION"]
      /\ acct' = PayWon(Hold(acct, u, amount), u, Seller(d), amount)
      /\ terms' = terms /\ winnerBid'[d] = 1
  <2>1. Len(bids[d]) + 1 = 1
    BY <1>2, EmptySeq
  <2> QED BY <1>1, <1>2, <2>1 DEF AcceptDutch, SettleWon, TypeOK
<1>5. PaidFor(d, 1)'
  BY <1>3, <1>4 DEF PaidFor, RowIs
<1>6. Standing(d) = {} /\ Standing(d)' = {}
  BY <1>2, <1>3, <1>5 DEF Standing, BidsWith
<1>7. ASSUME NEW v \in Users
      PROVE  acct'[v].held = acct[v].held /\ acct'[v].refunds = acct[v].refunds
  <2>1. Hold(acct, u, amount) \in [Users -> Account]
    BY <1>1, HoldFacts DEF KeepsBooks
  <2>2. /\ acct'[v].held = Hold(acct, u, amount)[v].held - (IF v = u THEN amount ELSE 0)
        /\ acct'[v].refunds = Hold(acct, u, amount)[v].refunds
    BY <1>1, <1>4, <2>1, SaleHolds
  <2>3. /\ Hold(acct, u, amount)[v].held = acct[v].held + (IF v = u THEN amount ELSE 0)
        /\ Hold(acct, u, amount)[v].refunds = acct[v].refunds
    BY <1>1, WalletHolds
  <2>4. acct[v].held \in Int
    BY <1>1, ColumnTypes
  <2> QED BY <1>1, <2>2, <2>3, <2>4
<1>8. \A v \in Users : Backing(d, v)' = Backing(d, v)
  <2>1. \A v \in Users : Backed(d, v)' = Backed(d, v)
    BY <1>6 DEF Backed
  <2> QED BY <1>1, <1>3, <2>1, BackingStays
<1>9. HoldsSound(d)'
  <2>1. ~Sealed(d)' /\ Settled(d)'
    BY <1>1, <1>4 DEF Sealed, Dutch, Settled, NoSettlement
  <2>2. LoneWon(d)'
    BY <1>3 DEF LoneWon
  <2>3. WinnerHolds(d)'
    BY <1>3, <1>4, <2>1 DEF WinnerHolds, Holding, BidsWith, RowIs
  <2> QED BY <2>1, <2>2, <2>3 DEF HoldsSound, SealedRows
<1>10. \A v \in Users : /\ acct[v].refunds \in Nat /\ acct[v].held \in Int
                        /\ Backing(d, v) \in Int
  BY <1>1, BackingFacts, ColumnTypes DEF BackingTyped
<1> QED BY <1>7, <1>8, <1>9, <1>10 DEF HoldsKept

\* A direct sale leaves all holds and what backs them alone.
LEMMA BuyNowHolds ==
  ASSUME HoldsInv, TypeOK', NEW u \in Users, NEW d \in Auctions, BuyNow(u, d)
  PROVE  HoldsKept(d)
<1>1. /\ OutcomeInv /\ TypeOK /\ status[d] = "ACTIVE" /\ acct \in [Users -> Account]
      /\ Seller(d) \in Users /\ terms[d].buyNowPrice \in Nat
      /\ bids' = bids /\ terms' = terms
      /\ acct' = PayDirect(acct, u, Seller(d), terms[d].buyNowPrice)
      /\ settlement'[d].kind = "DIRECT_SALE"
  BY CatalogsAssumption DEF HoldsInv, OutcomeInv, Inv, BuyNow, TypeOK, Seller, AuctionTerms
<1>2. /\ AuctionSound(d)
      /\ \A i \in DOMAIN bids[d] : bids[d][i].status \in {"WINNING", "OUTBID"}
      /\ Standing(d) = BidsWith(d, "WINNING")
  BY <1>1, OnOfferFacts
<1>3. Standing(d)' = BidsWith(d, "WINNING")
  BY <1>1, <1>2 DEF Standing, BidsWith, PaidFor
<1>4. \A v \in Users : acct'[v].held = acct[v].held /\ acct'[v].refunds = acct[v].refunds
  BY <1>1, SaleHolds
<1>5. \A v \in Users : Backing(d, v)' = Backing(d, v)
  <2>1. \A v \in Users : Backed(d, v)' = Backed(d, v)
    BY <1>1, <1>2, <1>3 DEF Backed
  <2> QED BY <1>1, <2>1, BackingStays
<1>6. HoldsSound(d)'
  <2>1. ~WonByBid(d)'
    BY <1>1 DEF WonByBid, SoldDirectly
  <2>2. LoneWon(d)'
    BY <1>1, <1>2 DEF LoneWon
  <2>3. SealedRows(d)'
    BY <1>1, <1>2 DEF SealedRows, Sealed, AuctionSound, OnOffer
  <2> QED BY <2>1, <2>2, <2>3 DEF HoldsSound, WinnerHolds
<1>7. \A v \in Users : /\ acct[v].refunds \in Nat /\ acct[v].held \in Int
                       /\ Backing(d, v) \in Int
  BY <1>1, BackingFacts, ColumnTypes DEF BackingTyped
<1> QED BY <1>4, <1>5, <1>6, <1>7 DEF HoldsKept

\* A cancellation refunds exactly what backed the holds, and remembers it in refunds.
LEMMA CancelAuctionHolds ==
  ASSUME HoldsInv, TypeOK', NEW d \in Auctions, CancelAuction(d)
  PROVE  HoldsKept(d)
<1>1. /\ OutcomeInv /\ TypeOK /\ status[d] # "ENDED" /\ acct \in [Users -> Account]
      /\ terms' = terms /\ settlement' = settlement /\ status'[d] = "CANCELLED"
      /\ bids'[d] = Mark(d, BidsWith(d, "WINNING"), "OUTBID")
      /\ acct' = RefundAll(acct, [u \in Users |-> Staked(d, BidsWith(d, "WINNING"), u)])
  BY DEF HoldsInv, OutcomeInv, Inv, CancelAuction, TypeOK
<1>2. /\ \A i \in DOMAIN bids[d] : bids[d][i].status \in {"WINNING", "OUTBID"}
      /\ Standing(d) = BidsWith(d, "WINNING")
  BY <1>1, OnOfferFacts
<1>3. /\ DOMAIN bids'[d] = DOMAIN bids[d]
      /\ \A i \in DOMAIN bids[d] :
           /\ bids'[d][i].bidder = bids[d][i].bidder
           /\ bids'[d][i].amount = bids[d][i].amount
           /\ bids'[d][i].status = "OUTBID"
  <2> DEFINE s == Mark(d, BidsWith(d, "WINNING"), "OUTBID")
  <2>1. /\ DOMAIN s = DOMAIN bids[d]
        /\ \A i \in DOMAIN bids[d] :
             /\ s[i].bidder = bids[d][i].bidder
             /\ s[i].amount = bids[d][i].amount
             /\ s[i].status = IF i \in BidsWith(d, "WINNING") THEN "OUTBID" ELSE bids[d][i].status
    BY <1>1, MarkFacts DEF BidStatuses
  <2> HIDE DEF s
  <2>2. bids'[d] = s
    BY <1>1 DEF s
  <2> QED BY <1>2, <2>1, <2>2 DEF BidsWith
<1>4. Standing(d)' = {}
  BY <1>3 DEF Standing, BidsWith
<1> DEFINE r == [u \in Users |-> Staked(d, BidsWith(d, "WINNING"), u)]
<1>5. r \in [Users -> Nat]
  BY <1>1, StakedIsMoney DEF BidsWith
<1>6. \A v \in Users : r[v] = Backing(d, v)
  BY <1>2 DEF Backing, Backed, Amounts, Staked
<1>7. acct' = RefundAll(acct, r)
  BY <1>1
<1> HIDE DEF r
<1>8. \A v \in Users : /\ acct'[v].held = acct[v].held - r[v]
                       /\ acct'[v].refunds = acct[v].refunds + r[v]
  BY <1>1, <1>5, <1>7, BulkHolds
<1>9. \A v \in Users : Backing(d, v)' = 0
  <2>1. \A v \in Users : Backed(d, v)' = {}
    BY <1>4 DEF Backed
  <2> QED BY <2>1, SumEmpty DEF Backing
<1>10. \A v \in Users : acct[v].held \in Int /\ acct[v].refunds \in Nat /\ r[v] \in Nat
  BY <1>1, <1>5, ColumnTypes
<1>11. SealedRows(d)'
  <2> SUFFICES ASSUME Sealed(d), NEW i \in DOMAIN bids[d]
               PROVE  acct'[bids[d][i].bidder].refunds > 0
    BY <1>1, <1>3 DEF SealedRows, Sealed
  <2> DEFINE v == bids[d][i].bidder
  <2>1. v \in Users
    BY <1>1, BidRows
  <2>2. CASE bids[d][i].status = "WINNING"
    <3>1. i \in Backed(d, v)
      BY <1>2, <2>2 DEF Backed, BidsWith
    <3>2. /\ IsFiniteSet(Backed(d, v)) /\ Backed(d, v) \subseteq DOMAIN bids[d]
          /\ \A j \in Backed(d, v) : Amounts(d)[j] \in Nat
          /\ Amounts(d)[i] = bids[d][i].amount
      BY <1>1, <2>1, BackingFacts DEF BackingTyped
    <3>3. Backing(d, v) >= Amounts(d)[i]
      BY <3>1, <3>2, SumAtLeast DEF Backing
    <3>4. bids[d][i].amount \in Nat \ {0}
      BY <1>1, BidRows
    <3> HIDE DEF v
    <3>5. r[v] > 0
      BY <1>6, <1>10, <2>1, <3>2, <3>3, <3>4
    <3> QED BY <1>8, <1>10, <2>1, <3>5 DEF v
  <2>3. CASE bids[d][i].status = "OUTBID"
    <3>1. SealedRows(d) /\ ~bids[d][i].refunded
      BY <1>1, OnOfferFacts DEF HoldsInv, HoldsSound, Tied
    <3>2. acct[v].refunds > 0
      BY <2>3, <3>1 DEF SealedRows
    <3> HIDE DEF v
    <3> QED BY <1>8, <1>10, <2>1, <3>2 DEF v
  <2> QED BY <1>2, <2>2, <2>3
<1>12. HoldsSound(d)'
  <2>1. ~WonByBid(d)' /\ LoneWon(d)'
    BY <1>1, <1>3 DEF WonByBid, LoneWon
  <2> QED BY <1>11, <2>1 DEF HoldsSound, WinnerHolds
<1>13. \A v \in Users : /\ acct'[v].refunds >= acct[v].refunds
                        /\ acct'[v].held = acct[v].held + (Backing(d, v)' - Backing(d, v))
  BY <1>6, <1>8, <1>9, <1>10
<1> QED BY <1>12, <1>13 DEF HoldsKept

\* The jobs that start and end an auction move no money; the winning bid holds.
LEMMA JobHolds ==
  ASSUME HoldsInv, Undisturbed, TypeOK', NEW d \in Auctions,
         ReadPending(d) \/ WriteActive(d) \/ Determined(d)
  PROVE  HoldsKept(d)
<1>1. /\ OutcomeInv /\ bids' = bids /\ settlement' = settlement /\ acct' = acct /\ terms' = terms
      /\ acct \in [Users -> Account] /\ TypeOK
  BY DEF HoldsInv, OutcomeInv, Inv, TypeOK, ReadPending, WriteActive, Determined
<1>2. status[d] # "ENDED"
  BY <1>1 DEF ReadPending, WriteActive, Determined, Endable, OutcomeInv, AuctionSound, Untouched
<1>3. /\ ~Settled(d)
      /\ \A i \in DOMAIN bids[d] : bids[d][i].status \in {"WINNING", "OUTBID"}
  BY <1>1, <1>2, OnOfferFacts
<1>4. \A v \in Users : Backing(d, v)' = Backing(d, v)
  <2>1. \A v \in Users : Backed(d, v)' = Backed(d, v)
    BY <1>1 DEF Backed, Standing, BidsWith, PaidFor
  <2> QED BY <1>1, <2>1, BackingStays
<1>5. LoneWon(d)'
  BY <1>1, <1>3 DEF LoneWon
<1>6. SealedRows(d)'
  <2>1. SealedRows(d)
    BY <1>2 DEF HoldsInv, HoldsSound, Tied
  <2> QED BY <1>1, <1>3, <2>1 DEF SealedRows, Sealed
<1>7. WinnerHolds(d)'
  <2> SUFFICES ASSUME WonByBid(d)'
               PROVE  WinnerHolds(d)'
    BY DEF WinnerHolds
  <2>1. Settled(d)' = Settled(d) /\ Dutch(d)' = Dutch(d) /\ Holding(d)' = Holding(d)
    BY <1>1 DEF Settled, Dutch, Holding, BidsWith
  <2>2. CASE ReadPending(d) \/ WriteActive(d)
    <3>1. status'[d] # "ENDED"
      BY <1>1, <1>2, <2>2 DEF ReadPending, WriteActive, TypeOK
    <3> QED BY <3>1 DEF WonByBid
  <2>3. CASE Determined(d)
    <3>1. PICK b \in Leading(d) : Determine(d, b)
      BY <2>3 DEF Determined
    <3>2. b # 0 /\ winnerBid'[d] = b
      <4> DEFINE w == IF b # 0 /\ MeetsReserve(d, b) THEN bids[d][b].bidder ELSE NoUser
      <4>1. /\ winner'[d] = w
            /\ winnerBid'[d] = (IF w = NoUser THEN 0 ELSE b)
            /\ w # NoUser => b # 0
        BY <1>1, <3>1 DEF Determine, TypeOK
      <4> QED BY <4>1 DEF WonByBid
    <3>3. bids[d][b].status = "WINNING" /\ b \in DOMAIN bids[d] /\ ~Dutch(d)
      BY <1>1, <2>3, <3>1, <3>2, LeadingIsBest DEF Determined, TopOf
    <3>4. b \in Holding(d)
      BY <3>3 DEF Holding, BidsWith
    <3> QED BY <1>3, <2>1, <3>2, <3>3, <3>4 DEF WinnerHolds
  <2> QED BY <2>2, <2>3
<1>8. \A v \in Users : /\ acct[v].refunds \in Nat /\ acct[v].held \in Int
                       /\ Backing(d, v) \in Int
  BY <1>1, BackingFacts, ColumnTypes DEF BackingTyped
<1> QED BY <1>1, <1>4, <1>5, <1>6, <1>7, <1>8 DEF HoldsKept, HoldsSound

\* A drop of the price moves no money.
LEMMA PriceHolds ==
  ASSUME HoldsInv, TypeOK', NEW d \in Auctions, PriceOnly(d)
  PROVE  HoldsKept(d)
<1> USE DEF PriceOnly
<1>1. TypeOK /\ HoldsSound(d) /\ acct \in [Users -> Account]
  BY DEF HoldsInv, OutcomeInv, Inv, TypeOK
<1>2. /\ Dutch(d)' = Dutch(d) /\ Sealed(d)' = Sealed(d) /\ Settled(d)' = Settled(d)
      /\ WonByBid(d)' = WonByBid(d) /\ Holding(d)' = Holding(d) /\ Tied(d)' = Tied(d)
  BY DEF Dutch, Sealed, Settled, WonByBid, SoldDirectly, Holding, BidsWith, Tied, TopOf
<1>3. HoldsSound(d)'
  BY <1>1, <1>2 DEF HoldsSound, LoneWon, WinnerHolds, SealedRows, PaidFor, TopOf
<1>4. \A v \in Users : Backing(d, v)' = Backing(d, v)
  BY DEF Backing, Amounts, Backed, Standing, BidsWith, PaidFor
<1>5. \A v \in Users : /\ acct[v].refunds \in Nat /\ acct[v].held \in Int
                       /\ Backing(d, v) \in Int
  BY <1>1, BackingFacts, ColumnTypes DEF BackingTyped
<1> QED BY <1>3, <1>4, <1>5 DEF HoldsKept

-----------------------------------------------------------------------------
(* Holds after the end                                                     *)

\* The best bid of a sealed auction that did not end in a tie is the only best one.
LEMMA OneBest ==
  ASSUME NEW d, Sealed(d), status[d] = "ENDED", ~Tied(d),
         NEW i \in TopOf(d, DOMAIN bids[d]), NEW j \in TopOf(d, DOMAIN bids[d])
  PROVE  i = j
BY DEF Tied

\* Rows that keep their amounts keep the tie.
LEMMA TieStays ==
  ASSUME NEW d, status[d] = "ENDED", status' = status, terms' = terms,
         DOMAIN bids'[d] = DOMAIN bids[d],
         \A i \in DOMAIN bids[d] : bids'[d][i].amount = bids[d][i].amount
  PROVE  /\ Tied(d)' = Tied(d)
         /\ TopOf(d, DOMAIN bids[d])' = TopOf(d, DOMAIN bids[d])
<1>1. TopOf(d, DOMAIN bids[d])' = TopOf(d, DOMAIN bids[d])
  BY DEF TopOf
<1>2. Sealed(d)' = Sealed(d)
  BY DEF Sealed
<1> QED BY <1>1, <1>2 DEF Tied

\* The refund transaction releases what backed the losers' holds, unless a
\* cancellation has refunded them already.
LEMMA RefundHolds ==
  ASSUME HoldsInv, TypeOK', NEW c \in closing, RefundSealed(c)
  PROVE  HoldsKept(c.auction)
<1> DEFINE d == c.auction
           pending == Unprocessed(d)
<1>1. d \in Auctions /\ TypeOK /\ AuctionSound(d) /\ RunShows(c) /\ OutcomeInv
  BY ClosingFacts DEF HoldsInv, OutcomeInv, Inv, AuctionSound
<1>2. PICK top \in IF pending = {} THEN {0} ELSE TopOf(d, pending) :
        /\ acct' = ReleaseAll(acct, [u \in Users |-> Staked(d, Losing(pending, top), u)])
        /\ RowsProcessed(d, pending, top)
  BY <1>1, RefundShape
<1>3. pending = {} \/ pending = DOMAIN bids[d]
  BY <1>1 DEF AuctionSound, AllOrNone, Unprocessed
<1>4. /\ c.step = "refund" /\ status' = status /\ winner' = winner /\ winnerBid' = winnerBid
      /\ settlement' = settlement /\ terms' = terms
  BY DEF RefundSealed
<1>5. status[d] = "ENDED" /\ Sealed(d) /\ ~SoldDirectly(d) /\ ~Dutch(d)
  BY <1>1, <1>4 DEF RunShows, Sealed, Dutch
<1>6. Losing(pending, top) \subseteq DOMAIN bids[d]
  BY DEF Losing, Unprocessed
<1> HIDE DEF d, pending
<1> DEFINE r == [u \in Users |-> Staked(d, Losing(pending, top), u)]
<1>7. r \in [Users -> Nat] /\ acct \in [Users -> Account]
  BY <1>1, <1>6, StakedIsMoney DEF TypeOK
<1>8. acct' = ReleaseAll(acct, r)
  BY <1>2
<1>9. \A v \in Users :
        r[v] = SumFunctionOnSet(Amounts(d), {i \in Losing(pending, top) : bids[d][i].bidder = v})
  BY DEF Staked, Amounts
<1> HIDE DEF r
<1>10. \A v \in Users : /\ acct'[v].held = acct[v].held - r[v]
                        /\ acct'[v].refunds = acct[v].refunds
                        /\ acct[v].held \in Int /\ acct[v].refunds \in Nat /\ r[v] \in Nat
  BY <1>7, <1>8, BulkHolds, ColumnTypes
<1>11. /\ DOMAIN bids'[d] = DOMAIN bids[d]
       /\ \A i \in DOMAIN bids[d] : /\ bids'[d][i].bidder = bids[d][i].bidder
                                    /\ bids'[d][i].amount = bids[d][i].amount
  BY <1>2 DEF RowsProcessed, RowIs
<1>12. Tied(d)' = Tied(d) /\ TopOf(d, DOMAIN bids[d])' = TopOf(d, DOMAIN bids[d])
  BY <1>4, <1>5, <1>11, TieStays
<1>13. CASE pending = {}
  <2>1. \A i \in DOMAIN bids[d] : bids'[d][i] = bids[d][i]
    BY <1>2, <1>13 DEF RowsProcessed
  <2>2. \A v \in Users : r[v] = 0
    <3>1. \A v \in Users : {i \in Losing(pending, top) : bids[d][i].bidder = v} = {}
      BY <1>13 DEF Losing
    <3> QED BY <1>9, <3>1, SumEmpty
  <2>3. Holding(d)' = Holding(d) /\ Standing(d)' = Standing(d)
    BY <1>4, <1>11, <2>1 DEF Holding, Standing, BidsWith, PaidFor
  <2>4. Standing(d) \subseteq DOMAIN bids[d] /\ Holding(d) \subseteq DOMAIN bids[d]
    BY DEF Standing, Holding, BidsWith
  <2>5. \A v \in Users : Backing(d, v)' = Backing(d, v) /\ Backing(d, v) \in Int
    <3>1. \A v \in Users : Backed(d, v)' = Backed(d, v)
      BY <1>11, <2>3, <2>4 DEF Backed
    <3> QED BY <1>1, <1>11, <3>1, BackingStays, BackingFacts DEF BackingTyped
  <2>6. ASSUME ~Tied(d)
        PROVE  LoneWon(d)' /\ WinnerHolds(d)' /\ SealedRows(d)'
    <3>1. LoneWon(d) /\ WinnerHolds(d) /\ SealedRows(d)
      BY <1>1, <2>6 DEF HoldsInv, HoldsSound
    <3>2. LoneWon(d)'
      BY <1>4, <1>11, <2>1, <2>3, <3>1 DEF LoneWon, PaidFor
    <3>3. WinnerHolds(d)'
      <4>1. WonByBid(d)' = WonByBid(d) /\ Settled(d)' = Settled(d) /\ ~Dutch(d)'
        BY <1>4, <1>5 DEF WonByBid, SoldDirectly, Settled, Dutch
      <4> QED BY <1>4, <2>1, <2>3, <2>4, <3>1, <4>1 DEF WinnerHolds
    <3>4. SealedRows(d)'
      <4>1. \A i \in DOMAIN bids[d] : bids[d][i].refunded
        BY <1>13 DEF pending, Unprocessed
      <4> QED BY <1>11, <2>1, <4>1 DEF SealedRows
    <3> QED BY <3>2, <3>3, <3>4
  <2>7. HoldsSound(d)'
    BY <1>12, <2>6 DEF HoldsSound
  <2>8. \A v \in Users : /\ acct'[v].refunds >= acct[v].refunds
                         /\ acct'[v].held = acct[v].held + (Backing(d, v)' - Backing(d, v))
    BY <1>10, <2>2, <2>5
  <2> QED BY <2>7, <2>8 DEF HoldsKept, d
<1>14. CASE pending # {}
  <2>1. pending = DOMAIN bids[d] /\ top \in TopOf(d, DOMAIN bids[d]) /\ top \in DOMAIN bids[d]
    BY <1>2, <1>3, <1>14 DEF TopOf
  <2>2. \A i \in DOMAIN bids[d] :
          RowIs(d, i, bids[d][i].bidder, bids[d][i].amount, IF i = top THEN "WON" ELSE "LOST", TRUE)
    BY <1>2, <2>1 DEF RowsProcessed
  <2>3. \A i \in DOMAIN bids[d] : ~bids[d][i].refunded
    BY <2>1 DEF pending, Unprocessed
  <2>4. Holding(d)' = {top}
    BY <1>11, <2>1, <2>2 DEF Holding, BidsWith, RowIs
  <2>5. HoldsSound(d)'
    <3> SUFFICES ASSUME ~Tied(d)
                 PROVE  LoneWon(d)' /\ WinnerHolds(d)' /\ SealedRows(d)'
      BY <1>12 DEF HoldsSound
    <3>1. LoneWon(d)'
      BY <1>11, <2>2, <2>4 DEF LoneWon, RowIs
    <3>2. WinnerHolds(d)'
      <4> SUFFICES ASSUME WonByBid(d)
                   PROVE  winnerBid[d] = top
        <5>1. WonByBid(d)' = WonByBid(d) /\ ~Dutch(d)'
          BY <1>4, <1>5 DEF WonByBid, SoldDirectly, Dutch
        <5> QED BY <1>4, <2>1, <2>2, <2>4, <5>1 DEF WinnerHolds, RowIs
      <4>1. winnerBid[d] \in TopOf(d, DOMAIN bids[d])
        BY <1>1 DEF AuctionSound, BestWins
      <4> QED BY <1>5, <2>1, <4>1, OneBest
    <3>3. SealedRows(d)'
      BY <1>11, <2>2 DEF SealedRows, RowIs
    <3> QED BY <3>1, <3>2, <3>3
  <2>6. ASSUME NEW v \in Users, NotRefundedSealed(v)', ~Tied(d)
        PROVE  acct'[v].held = acct[v].held + (Backing(d, v)' - Backing(d, v))
    <3>1. LoneWon(d) /\ WinnerHolds(d) /\ SealedRows(d)
      BY <1>1, <2>6 DEF HoldsInv, HoldsSound
    <3>2. \A i \in DOMAIN bids[d] : bids[d][i].status = "WON" => PaidFor(d, i) /\ i = top
      BY <1>5, <2>1, <2>3, <2>6, <3>1, OneBest DEF SealedRows
    <3>3. \A i \in DOMAIN bids[d] : bids[d][i].bidder = v => bids[d][i].status \in {"WINNING", "WON"}
      <4> SUFFICES ASSUME NEW i \in DOMAIN bids[d], bids[d][i].bidder = v
                   PROVE  bids[d][i].status \in {"WINNING", "WON"}
        OBVIOUS
      <4>1. acct[v].refunds = 0
        <5>1. Sealed(d)' /\ bids'[d][i].bidder = v /\ i \in DOMAIN bids'[d]
          BY <1>4, <1>5, <1>11 DEF Sealed
        <5> QED BY <1>1, <1>10, <2>6, <5>1 DEF NotRefundedSealed
      <4>2. bids[d][i].status \in BidStatuses
        BY <1>1, BidRows
      <4> QED BY <1>5, <2>3, <3>1, <4>1, <4>2 DEF SealedRows, BidStatuses
    <3>4. PaidFor(d, top)' => PaidFor(d, top)
      <4> SUFFICES ASSUME PaidFor(d, top)'
                   PROVE  bids[d][top].status = "WON"
        BY <1>4, <1>11, <2>1 DEF PaidFor
      <4>1. settlement[d] = [party |-> bids[d][top].bidder, amount |-> bids[d][top].amount,
                             kind |-> "WON_AUCTION"]
        BY <1>4, <1>11, <2>1 DEF PaidFor
      <4>2. bids[d][top].bidder \in Users
        BY <1>1, <2>1, BidRows
      <4>3. Settled(d) /\ WonByBid(d)
        BY <1>1, <1>5, <4>1, <4>2, NoUserAssumption
           DEF Settled, NoSettlement, WonByBid, AuctionSound, ShownIsSettled
      <4>4. winnerBid[d] \in TopOf(d, DOMAIN bids[d]) /\ bids[d][winnerBid[d]].status = "WON"
        BY <1>1, <3>1, <4>3 DEF AuctionSound, BestWins, WinnerHolds
      <4> QED BY <1>5, <2>1, <2>6, <4>4, OneBest
    <3> DEFINE L == {i \in Losing(pending, top) : bids[d][i].bidder = v}
               B == Backed(d, v)
               f == Amounts(d)
    <3>5. B \ {top} = L \ {0}
      <4>1. 0 \notin L
        BY <1>1, <1>6, BidRows DEF d
      <4>2. B \ {top} \subseteq L
        BY <2>1 DEF Backed, Standing, BidsWith, Losing
      <4>3. L \subseteq B \ {top}
        BY <2>1, <3>2, <3>3 DEF Backed, Standing, BidsWith, Losing, PaidFor
      <4> QED BY <4>1, <4>2, <4>3
    <3>6. /\ B \subseteq DOMAIN bids[d] /\ IsFiniteSet(B) /\ IsFiniteSet(DOMAIN bids[d])
          /\ \A i \in DOMAIN bids[d] : f[i] = bids[d][i].amount /\ f[i] \in Nat
          /\ Backing(d, v) = SumFunctionOnSet(f, B) /\ Backing(d, v) \in Int
      BY <1>1, BackingFacts DEF BackingTyped, Backing
    <3>7. L \subseteq DOMAIN bids[d] /\ IsFiniteSet(L) /\ 0 \notin L
      <4>1. L \subseteq DOMAIN bids[d]
        BY <2>1 DEF Losing
      <4> QED BY <1>1, <3>6, <4>1, FS_Subset, BidRows
    <3>8. SumFunctionOnSet(f, L) - (IF 0 \in L THEN f[0] ELSE 0)
            = SumFunctionOnSet(f, B) - (IF top \in B THEN f[top] ELSE 0)
      <4> HIDE DEF L, B, f
      <4> QED BY <3>5, <3>6, <3>7, SumExchange
    <3>9. Backed(d, v)' \ {top} = {} \ {0} /\ (top \in Backed(d, v)' <=> top \in B)
      <4>1. Standing(d)' \subseteq {top}
        BY <2>4 DEF Standing, Holding
      <4>2. top \in Backed(d, v)' <=> bids[d][top].bidder = v /\ ~PaidFor(d, top)'
        BY <1>11, <2>1, <2>4 DEF Backed, Standing, Holding
      <4>3. top \in B <=> bids[d][top].bidder = v /\ ~PaidFor(d, top)
        BY <2>1, <3>3 DEF Backed, Standing, BidsWith
      <4>4. PaidFor(d, top) => PaidFor(d, top)'
        BY <1>4, <1>11, <2>1, <2>2 DEF PaidFor, RowIs
      <4> QED BY <3>4, <4>1, <4>2, <4>3, <4>4 DEF Backed
    <3>10. Backing(d, v)' = IF top \in B THEN f[top] ELSE 0
      <4> DEFINE g == Amounts(d)'
                 T == Backed(d, v)'
      <4>1. /\ T \subseteq DOMAIN bids'[d] /\ IsFiniteSet(T)
            /\ \A i \in DOMAIN bids'[d] : g[i] = bids'[d][i].amount /\ g[i] \in Nat
            /\ Backing(d, v)' = SumFunctionOnSet(g, T)
            /\ Backing(d, v)' \in Int
        BY <1>1, BackingFactsNext DEF BackingTyped, Backing
      <4>2. g[top] = f[top]
        BY <1>11, <2>1, <3>6, <4>1
      <4>3. T \ {top} = {} /\ (top \in T <=> top \in B)
        BY <3>9
      <4> HIDE DEF T, g, f, B
      <4>4. CASE top \in T
        <5>1. SumFunctionOnSet(g, T) = g[top] + SumFunctionOnSet(g, T \ {top})
          BY <1>11, <4>1, <4>4, SumRemove
        <5>2. SumFunctionOnSet(g, T \ {top}) = 0
          BY <4>3, SumEmpty
        <5> QED BY <1>11, <2>1, <4>1, <4>2, <4>3, <4>4, <5>1, <5>2
      <4>5. CASE top \notin T
        <5>1. T = {}
          BY <4>3, <4>5
        <5> QED BY <4>1, <4>3, <4>5, <5>1, SumEmpty
      <4> QED BY <4>4, <4>5
    <3>11. r[v] = SumFunctionOnSet(f, L)
      BY <1>9
    <3>12. r[v] = Backing(d, v) - Backing(d, v)'
      <4> HIDE DEF L, B, f
      <4>1. f[top] \in Nat
        BY <2>1, <3>6
      <4> QED BY <1>10, <3>6, <3>7, <3>8, <3>10, <3>11, <4>1
    <3>13. Backing(d, v)' \in Int
      BY <1>1, BackingFactsNext DEF BackingTyped
    <3> QED BY <1>10, <3>6, <3>12, <3>13
  <2>7. \A v \in Users : acct'[v].refunds >= acct[v].refunds
    BY <1>10
  <2> QED BY <1>12, <2>5, <2>6, <2>7 DEF HoldsKept, d
<1> QED BY <1>13, <1>14

\* Paying for the winning bid, which holds, takes exactly what backed it.
LEMMA SettleHolds ==
  ASSUME HoldsInv, TypeOK', NEW d \in Auctions, WonByBid(d), ~Settled(d),
         NEW b \in Holding(d), bids[d][b].bidder = winner[d],
         ~Tied(d) => b = winnerBid[d],
         SettleWon(acct, d, winner[d], bids[d][b].amount),
         bids' = [bids EXCEPT ![d] = Mark(d, {b}, "WON")],
         UNCHANGED <<terms, status, winner, winnerBid, price>>
  PROVE  HoldsKept(d)
<1>1. /\ TypeOK /\ AuctionSound(d) /\ acct \in [Users -> Account] /\ winner[d] \in Users
      /\ Seller(d) \in Users /\ b \in DOMAIN bids[d] /\ OutcomeInv
  BY NoUserAssumption, CatalogsAssumption
     DEF HoldsInv, OutcomeInv, Inv, TypeOK, WonByBid, Holding, BidsWith, Seller, AuctionTerms
<1> DEFINE m == bids[d][b].amount
           u == winner[d]
<1>2. m \in Nat
  BY <1>1, BidRows
<1>3. /\ acct' = PayWon(acct, u, Seller(d), m)
      /\ settlement'[d] = [party |-> u, amount |-> m, kind |-> "WON_AUCTION"]
  BY <1>1 DEF SettleWon, TypeOK
<1>4. /\ DOMAIN bids'[d] = DOMAIN bids[d]
      /\ \A i \in DOMAIN bids[d] :
           /\ bids'[d][i].bidder = bids[d][i].bidder
           /\ bids'[d][i].amount = bids[d][i].amount
           /\ bids'[d][i].refunded = bids[d][i].refunded
           /\ bids'[d][i].status = IF i = b THEN "WON" ELSE bids[d][i].status
  <2> DEFINE s == Mark(d, {b}, "WON")
  <2>1. /\ DOMAIN s = DOMAIN bids[d]
        /\ \A i \in DOMAIN bids[d] :
             /\ s[i].bidder = bids[d][i].bidder
             /\ s[i].amount = bids[d][i].amount
             /\ s[i].refunded = bids[d][i].refunded
             /\ s[i].status = IF i \in {b} THEN "WON" ELSE bids[d][i].status
    BY <1>1, MarkFacts DEF BidStatuses
  <2>2. bids'[d] = s
    BY <1>1 DEF TypeOK
  <2> HIDE DEF s
  <2> QED BY <2>1, <2>2
<1>5. Tied(d)' = Tied(d) /\ TopOf(d, DOMAIN bids[d])' = TopOf(d, DOMAIN bids[d])
  BY <1>4, TieStays DEF WonByBid
<1>6. \A v \in Users : /\ acct'[v].held = acct[v].held - (IF v = u THEN m ELSE 0)
                       /\ acct'[v].refunds = acct[v].refunds
                       /\ acct[v].refunds \in Nat /\ acct[v].held \in Int
  BY <1>1, <1>2, <1>3, SaleHolds, ColumnTypes
<1>7. PaidFor(d, b)' /\ \A i \in DOMAIN bids[d] : ~PaidFor(d, i)
  <2>1. \A i \in DOMAIN bids[d] : ~PaidFor(d, i)
    BY DEF PaidFor, Settled, NoSettlement
  <2> QED BY <1>1, <1>3, <1>4, <2>1 DEF PaidFor
<1>8. ASSUME ~Tied(d), NEW i \in DOMAIN bids[d], i # b
      PROVE  bids[d][i].status # "WON"
  BY <1>1, <1>7, <1>8 DEF HoldsInv, HoldsSound, LoneWon
<1>9. ASSUME NEW v \in Users, ~Tied(d)
      PROVE  acct'[v].held = acct[v].held + (Backing(d, v)' - Backing(d, v))
  <2>1. b \in Backed(d, v) <=> v = u
    BY <1>1, <1>7 DEF Backed, Standing, Holding
  <2>2. Backed(d, v) \ {b} = Backed(d, v)' \ {0} /\ 0 \notin Backed(d, v)'
    <3>1. 0 \notin Backed(d, v)'
      BY <1>1, <1>4, BidRows DEF Backed, Standing, BidsWith
    <3>2. b \notin Backed(d, v)'
      BY <1>7 DEF Backed, Standing
    <3>3. ASSUME NEW i \in DOMAIN bids[d], i # b
          PROVE  i \in Backed(d, v)' <=> i \in Backed(d, v)
      <4>1. bids'[d][i].status = bids[d][i].status /\ bids[d][i].status # "WON"
        BY <1>4, <1>8, <1>9, <3>3
      <4> QED BY <1>4, <3>3, <4>1 DEF Backed, Standing, BidsWith, PaidFor
    <3>4. Backed(d, v) \subseteq DOMAIN bids[d] /\ Backed(d, v)' \subseteq DOMAIN bids[d]
      BY <1>4 DEF Backed, Standing, BidsWith
    <3> QED BY <3>1, <3>2, <3>3, <3>4
  <2>3. Backing(d, v)' - (IF 0 \in Backed(d, v)' THEN bids'[d][0].amount ELSE 0)
          = Backing(d, v) - (IF b \in Backed(d, v) THEN bids[d][b].amount ELSE 0)
    BY <1>1, <1>4, <2>2, BackingMoves
  <2>4. Backing(d, v) \in Int /\ Backing(d, v)' \in Int
    BY <1>1, BackingFacts, BackingFactsNext DEF BackingTyped
  <2> QED BY <1>2, <1>6, <2>1, <2>2, <2>3, <2>4
<1>10. ASSUME ~Tied(d)
       PROVE  LoneWon(d)' /\ WinnerHolds(d)' /\ SealedRows(d)'
  <2>1. SealedRows(d) /\ b = winnerBid[d]
    BY <1>1, <1>10 DEF HoldsInv, HoldsSound
  <2>2. LoneWon(d)'
    <3> SUFFICES ASSUME NEW i \in DOMAIN bids'[d], NEW j \in DOMAIN bids'[d],
                        bids'[d][i].status = "WON", ~PaidFor(d, i)', i # j
                 PROVE  j \notin Holding(d)'
      BY DEF LoneWon
    <3> QED BY <1>4, <1>7, <1>8, <1>10
  <2>3. WinnerHolds(d)'
    <3>1. Settled(d)'
      BY <1>3 DEF Settled, NoSettlement
    <3>2. winnerBid'[d] = b /\ bids'[d][b].status = "WON" /\ b \in DOMAIN bids'[d]
      BY <1>1, <1>4, <2>1
    <3> QED BY <3>1, <3>2 DEF WinnerHolds, Holding, BidsWith
  <2>4. SealedRows(d)'
    <3> SUFFICES ASSUME Sealed(d), NEW i \in DOMAIN bids[d], ~bids[d][i].refunded
                 PROVE  /\ bids'[d][i].status = "WON" =>
                             PaidFor(d, i)' /\ i \in TopOf(d, DOMAIN bids[d])'
                        /\ bids'[d][i].status = "OUTBID" => acct'[bids'[d][i].bidder].refunds > 0
                        /\ bids'[d][i].status # "LOST"
      <4>1. Sealed(d)' = Sealed(d)
        BY DEF Sealed
      <4>2. \A i \in DOMAIN bids[d] : bids'[d][i].refunded <=> bids[d][i].refunded
        BY <1>4
      <4> QED BY <1>4, <4>1, <4>2 DEF SealedRows
    <3>1. CASE i = b
      <4>1. b \in TopOf(d, DOMAIN bids[d])
        BY <1>1, <2>1 DEF AuctionSound, BestWins
      <4>2. bids'[d][b].status = "WON"
        BY <1>1, <1>4
      <4> QED BY <1>5, <1>7, <3>1, <4>1, <4>2
    <3>2. CASE i # b
      <4>1. bids[d][i].bidder \in Users
        BY <1>1, BidRows
      <4>2. bids'[d][i].status = bids[d][i].status /\ bids'[d][i].bidder = bids[d][i].bidder
        BY <1>4, <3>2
      <4>3. bids[d][i].status # "WON"
        BY <1>8, <1>10, <3>2
      <4>4. /\ bids[d][i].status = "OUTBID" => acct[bids[d][i].bidder].refunds > 0
            /\ bids[d][i].status # "LOST"
        BY <2>1 DEF SealedRows
      <4>5. acct'[bids[d][i].bidder].refunds = acct[bids[d][i].bidder].refunds
        BY <1>6, <4>1
      <4> QED BY <4>2, <4>3, <4>4, <4>5
    <3> QED BY <3>1, <3>2
  <2> QED BY <2>2, <2>3, <2>4
<1>11. HoldsSound(d)'
  BY <1>5, <1>10 DEF HoldsSound
<1>12. \A v \in Users : acct'[v].refunds >= acct[v].refunds
  BY <1>6
<1> QED BY <1>5, <1>9, <1>11, <1>12 DEF HoldsKept

\* A settlement that finds the auction settled changes nothing.
LEMMA SettledHolds ==
  ASSUME HoldsInv, TypeOK', NEW d \in Auctions, WonByBid(d), Settled(d),
         acct' = acct, settlement' = settlement,
         bids' = [bids EXCEPT ![d] = Mark(d, {winnerBid[d]}, "WON")],
         UNCHANGED <<terms, status, winner, winnerBid, price>>
  PROVE  HoldsKept(d)
<1>1. TypeOK /\ AuctionSound(d) /\ acct \in [Users -> Account]
  BY DEF HoldsInv, OutcomeInv, Inv, TypeOK
<1> DEFINE b == winnerBid[d]
<1>2. /\ DOMAIN bids'[d] = DOMAIN bids[d]
      /\ \A i \in DOMAIN bids[d] :
           /\ bids'[d][i].bidder = bids[d][i].bidder
           /\ bids'[d][i].amount = bids[d][i].amount
           /\ bids'[d][i].refunded = bids[d][i].refunded
           /\ bids'[d][i].status = IF i = b THEN "WON" ELSE bids[d][i].status
  <2> DEFINE s == Mark(d, {b}, "WON")
  <2>1. /\ DOMAIN s = DOMAIN bids[d]
        /\ \A i \in DOMAIN bids[d] :
             /\ s[i].bidder = bids[d][i].bidder
             /\ s[i].amount = bids[d][i].amount
             /\ s[i].refunded = bids[d][i].refunded
             /\ s[i].status = IF i \in {b} THEN "WON" ELSE bids[d][i].status
    BY <1>1, MarkFacts DEF BidStatuses
  <2>2. bids'[d] = s
    BY <1>1 DEF TypeOK
  <2> HIDE DEF s
  <2> QED BY <2>1, <2>2
<1>3. Tied(d)' = Tied(d) /\ TopOf(d, DOMAIN bids[d])' = TopOf(d, DOMAIN bids[d])
  BY <1>2, TieStays DEF WonByBid
<1>4. ASSUME ~Tied(d)
      PROVE  /\ LoneWon(d)' /\ WinnerHolds(d)' /\ SealedRows(d)'
             /\ \A v \in Users : Backing(d, v)' = Backing(d, v)
  <2>1. LoneWon(d) /\ WinnerHolds(d) /\ SealedRows(d)
    BY <1>1, <1>4 DEF HoldsInv, HoldsSound
  <2>2. b \in DOMAIN bids[d] /\ bids[d][b].status = "WON"
    BY <2>1 DEF WinnerHolds, Holding, BidsWith
  <2>3. \A i \in DOMAIN bids[d] : bids'[d][i].status = bids[d][i].status
    BY <1>2, <2>2
  <2>4. \A i \in DOMAIN bids[d] : PaidFor(d, i)' <=> PaidFor(d, i)
    BY <1>2, <2>3 DEF PaidFor
  <2>5. Holding(d)' = Holding(d)
    BY <1>2, <2>3 DEF Holding, BidsWith
  <2>6. Standing(d)' = Standing(d) /\ Standing(d) \subseteq DOMAIN bids[d]
    BY <1>2, <2>3, <2>4 DEF Standing, BidsWith
  <2>7. LoneWon(d)'
    <3> SUFFICES ASSUME NEW i \in DOMAIN bids[d], NEW j \in DOMAIN bids[d],
                        bids'[d][i].status = "WON", ~PaidFor(d, i)', i # j
                 PROVE  j \notin Holding(d)'
      BY <1>2 DEF LoneWon
    <3>1. bids[d][i].status = "WON" /\ ~PaidFor(d, i)
      BY <2>3, <2>4
    <3>2. j \notin Holding(d)
      BY <2>1, <3>1 DEF LoneWon
    <3> QED BY <2>5, <3>2
  <2>8. WinnerHolds(d)'
    <3>1. Settled(d)'
      BY DEF Settled
    <3> QED BY <2>1, <2>2, <2>3, <2>5, <3>1 DEF WinnerHolds
  <2>9. SealedRows(d)'
    <3> SUFFICES ASSUME Sealed(d), NEW i \in DOMAIN bids[d], ~bids[d][i].refunded
                 PROVE  /\ bids[d][i].status = "WON" =>
                             PaidFor(d, i) /\ i \in TopOf(d, DOMAIN bids[d])
                        /\ bids[d][i].status = "OUTBID" => acct[bids[d][i].bidder].refunds > 0
                        /\ bids[d][i].status # "LOST"
      <4>1. Sealed(d)' = Sealed(d)
        BY DEF Sealed
      <4>2. \A i \in DOMAIN bids[d] : bids'[d][i].refunded <=> bids[d][i].refunded
        BY <1>2
      <4> QED BY <1>2, <1>3, <2>3, <4>1, <4>2 DEF SealedRows, PaidFor
    <3> QED BY <2>1 DEF SealedRows
  <2>10. \A v \in Users : Backed(d, v)' = Backed(d, v)
    BY <1>2, <2>6 DEF Backed
  <2> QED BY <1>1, <1>2, <2>7, <2>8, <2>9, <2>10, BackingStays
<1>5. HoldsSound(d)'
  BY <1>3, <1>4 DEF HoldsSound
<1>6. \A v \in Users : /\ acct[v].refunds \in Nat /\ acct[v].held \in Int
                       /\ Backing(d, v) \in Int
  BY <1>1, BackingFacts, ColumnTypes DEF BackingTyped
<1> QED BY <1>3, <1>4, <1>5, <1>6 DEF HoldsKept

\* The settle transaction of endAuction.
LEMMA SettleWinnerHolds ==
  ASSUME HoldsInv, TypeOK', NEW c \in closing, SettleWinner(c)
  PROVE  HoldsKept(c.auction)
<1> DEFINE d == c.auction
           b == winnerBid[d]
<1>1. d \in Auctions /\ TypeOK /\ AuctionSound(d) /\ RunShows(c)
  BY ClosingFacts DEF HoldsInv, OutcomeInv, Inv, AuctionSound
<1>2. c.winner = winner[d] /\ c.bid = b /\ WonByBid(d)
  BY <1>1, ClosingFacts DEF RunShows, WonByBid, SettleWinner
<1>3. bids[d][b].bidder = winner[d] /\ b \in DOMAIN bids[d]
  BY <1>1, <1>2 DEF AuctionSound, BestWins, TopOf
<1>4. /\ SettleWon(acct, d, winner[d], bids[d][b].amount)
      /\ bids' = [bids EXCEPT ![d] = Mark(d, {b}, "WON")]
      /\ UNCHANGED <<terms, status, winner, winnerBid, price>>
  BY <1>2 DEF SettleWinner
<1> HIDE DEF d
<1>5. CASE Settled(d)
  <2>1. acct' = acct /\ settlement' = settlement
    BY <1>4, <1>5 DEF SettleWon
  <2>2. HoldsKept(d)
    BY <1>1, <1>2, <1>4, <1>5, <2>1, SettledHolds
  <2> QED BY <2>2 DEF d
<1>6. CASE ~Settled(d) /\ b \in Holding(d)
  <2>1. HoldsKept(d)
    <3> HIDE DEF b
    <3>1. b = winnerBid[d]
      BY DEF b
    <3> QED BY <1>1, <1>2, <1>3, <1>4, <1>6, <3>1, SettleHolds
  <2> QED BY <2>1 DEF d
<1>7. CASE ~Settled(d) /\ b \notin Holding(d)
  <2>1. Tied(d)
    BY <1>1, <1>2, <1>7 DEF HoldsInv, HoldsSound, WinnerHolds
  <2>2. /\ DOMAIN Mark(d, {b}, "WON") = DOMAIN bids[d]
        /\ \A i \in DOMAIN bids[d] : Mark(d, {b}, "WON")[i].amount = bids[d][i].amount
    BY <1>1, MarkFacts DEF BidStatuses
  <2>3. bids'[d] = Mark(d, {b}, "WON")
    BY <1>1, <1>4 DEF TypeOK
  <2>4. Tied(d)'
    <3>1. DOMAIN bids'[d] = DOMAIN bids[d] /\ \A i \in DOMAIN bids[d] : bids'[d][i].amount = bids[d][i].amount
      <4> DEFINE s == Mark(d, {b}, "WON")
      <4> HIDE DEF s
      <4> QED BY <2>2, <2>3 DEF s
    <3> QED BY <1>4, <2>1, <3>1, TieStays DEF Tied
  <2>5. \A v \in Users : acct'[v].refunds >= acct[v].refunds
    <3>1. /\ acct \in [Users -> Account] /\ winner[d] \in Users /\ Seller(d) \in Users
          /\ bids[d][b].amount \in Nat
      BY <1>1, <1>2, <1>3, BidRows, CatalogsAssumption DEF TypeOK, WonByBid, Seller, AuctionTerms
    <3>2. acct' = PayWon(acct, winner[d], Seller(d), bids[d][b].amount)
      BY <1>4, <1>7 DEF SettleWon
    <3> QED BY <3>1, <3>2, SaleHolds, ColumnTypes
  <2> QED BY <2>4, <2>5 DEF HoldsKept, HoldsSound, d
<1> QED BY <1>5, <1>6, <1>7

\* What the winner confirms is the winning bid.
LEMMA ConfirmHolds ==
  ASSUME HoldsInv, TypeOK', NEW u \in Users, NEW d \in Auctions, ConfirmWinnerPayment(u, d)
  PROVE  HoldsKept(d)
<1>1. OutcomeInv /\ TypeOK /\ AuctionSound(d) /\ winner[d] = u /\ status[d] = "ENDED" /\ ~Settled(d)
  BY DEF HoldsInv, OutcomeInv, Inv, ConfirmWinnerPayment
<1>2. PICK b \in Payable(u, d) :
        /\ SettleWon(acct, d, u, bids[d][b].amount)
        /\ bids' = [bids EXCEPT ![d] = Mark(d, {b}, "WON")]
  BY DEF ConfirmWinnerPayment
<1>3. WonByBid(d) /\ ~Dutch(d) /\ bids[d][b].amount = price[d]
  BY <1>1, <1>2, ConfirmedIsPrice
<1>4. b \in Holding(d) /\ b \in DOMAIN bids[d] /\ bids[d][b].bidder = u
  BY <1>2 DEF Payable, TopOf, Holding, BidsWith
<1>5. ASSUME ~Tied(d)
      PROVE  b = winnerBid[d]
  <2> DEFINE w == winnerBid[d]
  <2>1. LoneWon(d) /\ WinnerHolds(d)
    BY <1>1, <1>5 DEF HoldsInv, HoldsSound
  <2>2. w \in TopOf(d, DOMAIN bids[d]) /\ bids[d][w].amount = price[d]
    BY <1>1, <1>3 DEF AuctionSound, BestWins
  <2>3. w \in Holding(d) /\ ~Dutch(d) /\ w \in DOMAIN bids[d]
    BY <1>1, <1>3, <2>1 DEF WinnerHolds, Holding, BidsWith
  <2>4. \A i \in DOMAIN bids[d] : ~PaidFor(d, i)
    BY <1>1 DEF PaidFor, Settled, NoSettlement
  <2>5. CASE bids[d][b].status = "WON" \/ bids[d][w].status = "WON"
    BY <1>4, <2>1, <2>3, <2>4, <2>5 DEF LoneWon
  <2>6. CASE Sealed(d)
    <3>1. b \in TopOf(d, DOMAIN bids[d])
      BY <1>3, <1>4, <2>2 DEF TopOf
    <3> QED BY <1>1, <1>5, <2>2, <2>6, <3>1, OneBest
  <2>7. CASE English(d) /\ bids[d][b].status = "WINNING" /\ bids[d][w].status = "WINNING"
    BY <1>1, <1>4, <2>3, <2>7 DEF OutcomeInv, EnglishBidsClimb
  <2>8. English(d) \/ Sealed(d)
    <3>1. terms[d] \in AuctionTerms
      BY <1>1, CatalogsAssumption DEF TypeOK
    <3> QED BY <2>3, <3>1 DEF AuctionTerms, English, Sealed, Dutch
  <2>9. bids[d][b].status \in {"WINNING", "WON"} /\ bids[d][w].status \in {"WINNING", "WON"}
    BY <1>4, <2>3 DEF Holding, BidsWith
  <2> QED BY <2>5, <2>6, <2>7, <2>8, <2>9
<1>6. UNCHANGED <<terms, status, winner, winnerBid, price>>
  BY DEF ConfirmWinnerPayment
<1> QED BY <1>1, <1>2, <1>3, <1>4, <1>5, <1>6, SettleHolds

-----------------------------------------------------------------------------
(* Every step keeps holds backed                                           *)

\* Deposits, withdrawals and faults move no hold.
LEMMA QuietHolds ==
  ASSUME TypeOK, Undisturbed, QuietStep, NEW v \in Users
  PROVE  acct'[v].held = acct[v].held /\ acct'[v].refunds = acct[v].refunds
<1>1. ASSUME NEW u \in Users, NEW amount \in Transfers,
             Deposit(u, amount) \/ WriteDepositRow(u, amount) \/ Withdraw(u, amount)
      PROVE  acct'[v].held = acct[v].held /\ acct'[v].refunds = acct[v].refunds
  <2>1. acct \in [Users -> Account] /\ amount \in Nat
    BY AmountsAssumption DEF TypeOK
  <2>2. \/ acct' = CreditDeposit(acct, u, amount)
        \/ acct' = LogDeposit(acct, u, amount)
        \/ acct' = Debit(acct, u, amount)
    BY <1>1 DEF Deposit, WriteDepositRow, Withdraw
  <2> QED BY <2>1, <2>2, WalletHolds
<1>2. CASE acct' = acct
  BY <1>2
<1> QED BY <1>1, <1>2
        DEF QuietStep, vars, Undisturbed, EndJobReturns, Expire, DropFails, Redeliver, Abort

\* The auction that a step concerns keeps its holds backed.
LEMMA ConcernedHolds ==
  ASSUME HoldsInv, Undisturbed, TypeOK', NEW d \in Auctions, Concerned(d)
  PROVE  HoldsKept(d)
<1>1. ASSUME NEW u \in Users, NEW amount \in BidAmounts,
             PlaceBid(u, d, amount) \/ AcceptDutch(u, d, amount)
      PROVE  HoldsKept(d)
  BY <1>1, PlaceBidHolds, AcceptDutchHolds
<1>2. ASSUME NEW u \in Users, BuyNow(u, d) \/ ConfirmWinnerPayment(u, d)
      PROVE  HoldsKept(d)
  BY <1>2, BuyNowHolds, ConfirmHolds
<1>3. CASE CancelAuction(d) \/ ReadPending(d) \/ WriteActive(d) \/ EndAuction(d)
  BY <1>3, CancelAuctionHolds, JobHolds, EndDetermines DEF HoldsInv, OutcomeInv, Inv
<1>5. CASE \/ TakeDrop(d)
           \/ \E e \in drops : e.auction = d /\ (WritePrice(e) \/ EndAtFloor(e))
  BY <1>5, DropActs, JobHolds, PriceHolds DEF HoldsInv
<1>4. ASSUME NEW c \in closing, c.auction = d, RefundSealed(c) \/ SettleWinner(c)
      PROVE  HoldsKept(d)
  <2>1. HoldsKept(c.auction)
    BY <1>4, RefundHolds, SettleWinnerHolds
  <2> QED BY <1>4, <2>1
<1> QED BY <1>1, <1>2, <1>3, <1>4, <1>5 DEF Concerned

\* A step that leaves an auction alone leaves alone what is known of its holds, as
\* nobody is refunded less.
LEMMA SameHolds ==
  ASSUME TypeOK, NEW a \in Auctions, SameAuction(a), HoldsSound(a),
         \A u \in Users : acct'[u].refunds >= acct[u].refunds,
         acct' \in [Users -> Account]
  PROVE  /\ HoldsSound(a)' /\ Tied(a)' = Tied(a)
         /\ \A u \in Users : Backing(a, u)' = Backing(a, u)
<1> USE DEF SameAuction
<1>1. /\ Dutch(a)' = Dutch(a) /\ Sealed(a)' = Sealed(a) /\ Settled(a)' = Settled(a)
      /\ WonByBid(a)' = WonByBid(a)
  BY DEF Dutch, Sealed, Settled, WonByBid, SoldDirectly
<1>2. Holding(a)' = Holding(a) /\ TopOf(a, DOMAIN bids[a])' = TopOf(a, DOMAIN bids[a])
  BY DEF Holding, BidsWith, TopOf
<1>3. Tied(a)' = Tied(a)
  BY <1>1, <1>2 DEF Tied
<1>4. \A u \in Users : Backing(a, u)' = Backing(a, u)
  BY DEF Backing, Amounts, Backed, Standing, BidsWith, PaidFor
<1>5. ASSUME ~Tied(a)
      PROVE  LoneWon(a)' /\ WinnerHolds(a)' /\ SealedRows(a)'
  <2>1. LoneWon(a) /\ WinnerHolds(a) /\ SealedRows(a)
    BY <1>5 DEF HoldsSound
  <2>2. LoneWon(a)'
    BY <1>2, <2>1 DEF LoneWon, PaidFor
  <2>3. WinnerHolds(a)'
    BY <1>1, <1>2, <2>1 DEF WinnerHolds
  <2>4. SealedRows(a)'
    <3>1. \A i \in DOMAIN bids[a] :
            acct[bids[a][i].bidder].refunds > 0 => acct'[bids[a][i].bidder].refunds > 0
      <4>1. \A u \in Users : acct[u].refunds \in Nat /\ acct'[u].refunds \in Nat
        BY ColumnTypes DEF TypeOK
      <4> QED BY <4>1, BidRows
    <3> QED BY <1>1, <1>2, <2>1, <3>1 DEF SealedRows, PaidFor
  <2> QED BY <2>2, <2>3, <2>4
<1> QED BY <1>3, <1>4, <1>5 DEF HoldsSound

\* A user that is not refunded a sealed bid was not before the step.
LEMMA NotRefundedBefore ==
  ASSUME TypeOK, RowsStay, terms' = terms, NEW u \in Users, NotRefundedSealed(u)',
         acct'[u].refunds >= acct[u].refunds
  PROVE  NotRefundedSealed(u)
<1>1. CASE acct'[u].refunds = 0
  <2>1. acct[u].refunds \in Nat
    BY ColumnTypes DEF TypeOK
  <2> QED BY <1>1, <2>1 DEF NotRefundedSealed
<1>2. CASE \A a \in Auctions : Sealed(a)' => \A i \in DOMAIN bids'[a] : bids'[a][i].bidder # u
  BY <1>2 DEF NotRefundedSealed, Sealed, RowsStay
<1> QED BY <1>1, <1>2 DEF NotRefundedSealed

\* A quiet step keeps holds backed.
LEMMA QuietBacked ==
  ASSUME HoldsInv, Undisturbed, TypeOK', RowsStay, terms' = terms, QuietStep
  PROVE  (\A a \in Auctions : HoldsSound(a)') /\ HeldBacked'
<1>1. /\ TypeOK /\ HeldBacked /\ \A a \in Auctions : HoldsSound(a) /\ SameAuction(a)
      /\ acct' \in [Users -> Account]
  BY QuietSteps DEF HoldsInv, OutcomeInv, Inv, TypeOK
<1>2. \A u \in Users : /\ acct'[u].held = acct[u].held /\ acct'[u].refunds = acct[u].refunds
                       /\ acct[u].refunds \in Nat
  BY <1>1, QuietHolds, ColumnTypes DEF TypeOK
<1>3. \A a \in Auctions : /\ HoldsSound(a)' /\ Tied(a)' = Tied(a)
                          /\ \A u \in Users : Backing(a, u)' = Backing(a, u)
  BY <1>1, <1>2, SameHolds
<1>4. ASSUME \A a \in Auctions : ~Tied(a)', NEW u \in Users, NotRefundedSealed(u)'
      PROVE  acct'[u].held = SumFunctionOnSet([a \in Auctions |-> Backing(a, u)'], Auctions)
  <2>1. NotRefundedSealed(u)
    BY <1>1, <1>2, <1>4, NotRefundedBefore
  <2>2. acct[u].held = SumFunctionOnSet([a \in Auctions |-> Backing(a, u)], Auctions)
    BY <1>1, <1>3, <1>4, <2>1 DEF HeldBacked
  <2>3. [a \in Auctions |-> Backing(a, u)'] = [a \in Auctions |-> Backing(a, u)]
    BY <1>3
  <2> QED BY <1>2, <2>2, <2>3
<1> QED BY <1>3, <1>4 DEF HeldBacked

\* Holds stay backed when a step moves them by what the backing of auction d changes, and
\* leaves the other auctions alone.
LEMMA MovesBacked ==
  ASSUME HoldsInv, TypeOK', RowsStay, terms' = terms, NEW d \in Auctions, HoldsKept(d), Others(d),
         Tied(d) => Tied(d)'
  PROVE  (\A a \in Auctions : HoldsSound(a)') /\ HeldBacked'
<1>1. /\ TypeOK /\ HeldBacked /\ \A a \in Auctions : HoldsSound(a) /\ (a # d => SameAuction(a))
      /\ acct' \in [Users -> Account]
  BY DEF HoldsInv, OutcomeInv, Inv, TypeOK, Others
<1>2. HoldsKept(d)
  OBVIOUS
<1>3. \A u \in Users : acct'[u].refunds >= acct[u].refunds
  BY <1>2 DEF HoldsKept
<1>4. \A a \in Auctions : a # d => /\ HoldsSound(a)' /\ Tied(a)' = Tied(a)
                                   /\ \A u \in Users : Backing(a, u)' = Backing(a, u)
  BY <1>1, <1>3, SameHolds
<1>5. Tied(d) => Tied(d)'
  OBVIOUS
<1>6. ASSUME \A a \in Auctions : ~Tied(a)', NEW u \in Users, NotRefundedSealed(u)'
      PROVE  acct'[u].held = SumFunctionOnSet([a \in Auctions |-> Backing(a, u)'], Auctions)
  <2> DEFINE f == [a \in Auctions |-> Backing(a, u)]
             g == [a \in Auctions |-> Backing(a, u)']
  <2>1. NotRefundedSealed(u)
    BY <1>1, <1>3, <1>6, NotRefundedBefore
  <2>2. \A a \in Auctions : ~Tied(a)
    BY <1>4, <1>5, <1>6
  <2>3. acct[u].held = SumFunctionOnSet(f, Auctions)
    BY <1>1, <2>1, <2>2 DEF HeldBacked
  <2>4. acct'[u].held = acct[u].held + (g[d] - f[d])
    BY <1>2, <1>6 DEF HoldsKept
  <2>5. \A a \in Auctions : f[a] \in Int /\ g[a] \in Int
    BY <1>1, BackingFacts, BackingFactsNext DEF BackingTyped
  <2>6. \A a \in Auctions \ {d} : g[a] = f[a]
    BY <1>4
  <2> HIDE DEF f, g
  <2>7. SumFunctionOnSet(g, Auctions) = SumFunctionOnSet(f, Auctions) + (g[d] - f[d])
    BY <2>5, <2>6, SumChange, FiniteAssumption
  <2> QED BY <2>3, <2>4, <2>7 DEF g
<1>7. \A a \in Auctions : HoldsSound(a)'
  BY <1>2, <1>4 DEF HoldsKept
<1> QED BY <1>6, <1>7 DEF HeldBacked

\* A step that concerns auction d moves holds by what the backing of d changes.
LEMMA ConcernedBacked ==
  ASSUME HoldsInv, Undisturbed, TypeOK', RowsStay, terms' = terms,
         NEW d \in Auctions, Concerned(d), Others(d)
  PROVE  (\A a \in Auctions : HoldsSound(a)') /\ HeldBacked'
<1>1. Tied(d) => Tied(d)'
  <2> SUFFICES ASSUME Tied(d)
               PROVE  Tied(d)'
    OBVIOUS
  <2>1. status[d] = "ENDED" /\ Sealed(d) /\ AuctionSound(d)
    BY DEF Tied, HoldsInv, OutcomeInv
  <2>2. \/ \E u \in Users : ConfirmWinnerPayment(u, d)
        \/ \E c \in closing : c.auction = d /\ (RefundSealed(c) \/ SettleWinner(c))
    <3>1. ~TakeDrop(d) /\ \A e \in drops : e.auction # d
      BY <2>1, NoDropsElsewhere DEF TakeDrop, Sealed, Dutch, HoldsInv, OutcomeInv
    <3> QED BY <2>1, <3>1
            DEF Concerned, PlaceBid, AcceptDutch, CanBid, BuyNow, CancelAuction, ReadPending,
                WriteActive, EndAuction, Endable, AuctionSound, Untouched
  <2>3. status' = status
    BY <2>2 DEF ConfirmWinnerPayment, RefundSealed, SettleWinner
  <2>4. /\ DOMAIN bids[d] \subseteq DOMAIN bids'[d]
        /\ \A i \in DOMAIN bids[d] : bids'[d][i].amount = bids[d][i].amount
    BY DEF RowsKept, RowsStay
  <2>5. DOMAIN bids'[d] = DOMAIN bids[d]
    <3>1. CASE \E c \in closing : c.auction = d /\ RefundSealed(c)
      BY <3>1, RefundShape DEF RowsProcessed, HoldsInv, OutcomeInv, Inv
    <3>2. ASSUME NEW b, bids' = [bids EXCEPT ![d] = Mark(d, {b}, "WON")]
          PROVE  DOMAIN bids'[d] = DOMAIN bids[d]
      <4>1. bids'[d] = Mark(d, {b}, "WON")
        BY <3>2 DEF TypeOK, HoldsInv, OutcomeInv, Inv
      <4> QED BY <4>1 DEF Mark
    <3>3. CASE \/ \E u \in Users : ConfirmWinnerPayment(u, d)
               \/ \E c \in closing : c.auction = d /\ SettleWinner(c)
      BY <3>2, <3>3 DEF ConfirmWinnerPayment, SettleWinner
    <3> QED BY <2>2, <3>1, <3>3
  <2> QED BY <2>1, <2>3, <2>4, <2>5, TieStays
<1> QED BY <1>1, ConcernedHolds, MovesBacked

\* Every step keeps holds backed.
LEMMA NextBacked ==
  ASSUME Undisturbed, HoldsInv, TypeOK', [Next]_vars
  PROVE  (\A a \in Auctions : HoldsSound(a)') /\ HeldBacked'
<1>1. TypeOK /\ RowsStay /\ terms' = terms
  BY NextRows, TermsFixed DEF HoldsInv, OutcomeInv, Inv, RowsKept
<1> QED BY <1>1, StepConcerns, QuietBacked, ConcernedBacked

\* The states right after createAuction hold nothing.
LEMMA InitHolds ==
  ASSUME Init
  PROVE  (\A a \in Auctions : HoldsSound(a)) /\ HeldBacked
<1>1. \A a \in Auctions : DOMAIN bids[a] = {} /\ status[a] # "ENDED"
  BY DEF Init
<1>2. \A a \in Auctions : HoldsSound(a)
  BY <1>1 DEF HoldsSound, LoneWon, WinnerHolds, SealedRows, WonByBid
<1>3. \A u \in Users : acct[u].held = 0
  BY DEF Init, Opened
<1>4. ASSUME NEW u \in Users
      PROVE  SumFunctionOnSet([a \in Auctions |-> Backing(a, u)], Auctions) = 0
  <2> DEFINE f == [a \in Auctions |-> Backing(a, u)]
  <2>1. ASSUME NEW a \in Auctions PROVE f[a] = 0
    <3>1. Backed(a, u) = {}
      BY <1>1 DEF Backed, Standing, BidsWith
    <3> QED BY <3>1, SumEmpty DEF Backing
  <2>2. \A a \in Auctions : f[a] \in Int /\ f[a] = f[a] + f[a]
    BY <2>1
  <2> DEFINE total == SumFunctionOnSet(f, Auctions)
  <2> HIDE DEF f
  <2>3. total \in Int
    BY <2>2, SumType, FiniteAssumption
  <2>4. total = total + total
    BY <2>2, SumAdd, FiniteAssumption
  <2> HIDE DEF total
  <2>5. total = 0
    BY <2>3, <2>4
  <2> QED BY <2>5 DEF total, f
<1> QED BY <1>2, <1>3, <1>4 DEF HeldBacked

\* Backed holds are what HeldBacksBids asks for.
LEMMA BackedMeans ==
  ASSUME TypeOK, HeldBacked
  PROVE  HeldBacksBids
<1> SUFFICES ASSUME NoSealedTie, NEW u \in Users, NotRefundedSealed(u)
             PROVE  acct[u].held = SumFunction([a \in Auctions |-> Staked(a, Standing(a), u)])
  BY DEF HeldBacksBids
<1>1. ASSUME NEW a \in Auctions
      PROVE  ~Tied(a)
  <2> SUFFICES ASSUME Sealed(a), NEW i \in TopOf(a, DOMAIN bids[a]),
                      NEW j \in TopOf(a, DOMAIN bids[a])
               PROVE  i = j
    BY DEF Tied
  <2> DEFINE T == TopOf(a, DOMAIN bids[a])
  <2>1. IsFiniteSet(T) /\ Cardinality(T) <= 1 /\ Cardinality(T) \in Nat
    <3>1. IsFiniteSet(DOMAIN bids[a])
      BY BackingFacts DEF BackingTyped
    <3>2. IsFiniteSet(T)
      BY <3>1, FS_Subset DEF TopOf
    <3>3. Cardinality(T) <= 1
      BY DEF NoSealedTie
    <3> HIDE DEF T
    <3> QED BY <3>2, <3>3, FS_CardinalityType
  <2>2. i \in T /\ j \in T
    OBVIOUS
  <2> HIDE DEF T
  <2>3. Cardinality(T) = 1
    BY <2>1, <2>2, FS_EmptySet
  <2>4. \E x : T = {x}
    BY <2>1, <2>3, FS_Singleton
  <2> QED BY <2>2, <2>4
<1>2. [a \in Auctions |-> Backing(a, u)] = [a \in Auctions |-> Staked(a, Standing(a), u)]
  BY DEF Backing, Amounts, Backed, Staked
<1>3. acct[u].held = SumFunctionOnSet([a \in Auctions |-> Backing(a, u)], Auctions)
  BY <1>1 DEF HeldBacked
<1> QED BY <1>2, <1>3 DEF SumFunction

\* The inductive invariant of outcomes and holds.
THEOREM HoldsInvCorrect ==
  ASSUME Undisturbed
  PROVE  Spec => []HoldsInv
<1>1. Init => (\A a \in Auctions : HoldsSound(a)) /\ HeldBacked
  BY InitHolds
<1>2. /\ OutcomeInv /\ OutcomeInv' /\ [Next]_vars
      /\ (\A a \in Auctions : HoldsSound(a)) /\ HeldBacked
      => ((\A a \in Auctions : HoldsSound(a)) /\ HeldBacked)'
  <2> SUFFICES ASSUME HoldsInv, OutcomeInv', [Next]_vars
               PROVE  (\A a \in Auctions : HoldsSound(a)') /\ HeldBacked'
    BY DEF HoldsInv
  <2> QED BY NextBacked DEF OutcomeInv, Inv
<1> QED BY <1>1, <1>2, OutcomeInvCorrect, PTL DEF Spec, HoldsInv

\* With one server process and no admin overwriting statuses, the hold of every wallet
\* is the sum of the user's standing bids, unless a sealed auction is tied or a
\* cancellation has refunded the user a sealed bid.
THEOREM HoldsAreBacked ==
  ASSUME Undisturbed
  PROVE  Spec => []HeldBacksBids
<1>1. HoldsInv => HeldBacksBids
  BY BackedMeans DEF HoldsInv, OutcomeInv, Inv
<1> QED BY <1>1, HoldsInvCorrect, PTL

-----------------------------------------------------------------------------
(* Who pays, and how much                                                  *)

\* The winner of an auction that is still to be paid for holds the winning bid, and the
\* best bids that it can confirm are of its price.
LEMMA WinnerCanConfirm ==
  ASSUME HoldsInv, NEW a \in Auctions,
         status[a] = "ENDED", winner[a] # NoUser, ~Settled(a), ~TiedAtTop(a)
  PROVE  /\ Payable(winner[a], a) # {}
         /\ \A i \in Payable(winner[a], a) : bids[a][i].amount = price[a]
<1> DEFINE mine == {i \in BidsWith(a, "WINNING") \cup BidsWith(a, "WON") :
                      bids[a][i].bidder = winner[a]}
           b    == winnerBid[a]
<1>1. /\ TypeOK
      /\ BestWins(a) /\ Confirmable(a) /\ HoldsSound(a)
  BY DEF HoldsInv, OutcomeInv, AuctionSound, Inv
<1>2. WonByBid(a) /\ ~Tied(a) /\ ~Dutch(a)
  BY <1>1 DEF WonByBid, SoldDirectly, Settled, NoSettlement, Tied, TiedAtTop, Confirmable
<1>3. /\ b \in TopOf(a, DOMAIN bids[a])
      /\ bids[a][b].bidder = winner[a] /\ bids[a][b].amount = price[a]
      /\ b \in Holding(a)
  BY <1>1, <1>2 DEF BestWins, HoldsSound, WinnerHolds
<1>4. /\ mine \subseteq DOMAIN bids[a] /\ b \in mine
      /\ Payable(winner[a], a) = TopOf(a, mine)
  BY <1>3 DEF Holding, BidsWith, Payable
<1>5. \A i \in DOMAIN bids[a] : bids[a][i].amount \in Nat
  BY <1>1, BidRows
<1>6. b \in TopOf(a, mine)
  BY <1>3, <1>4 DEF TopOf
<1>7. ASSUME NEW i \in TopOf(a, mine)
      PROVE  bids[a][i].amount = price[a]
  BY <1>3, <1>4, <1>5 DEF TopOf
<1> QED BY <1>4, <1>6, <1>7

\* Settled or not, the invariant knows who pays and how much.
LEMMA KnownPayment == HoldsInv => PaidAsShown
<1> SUFFICES ASSUME HoldsInv, NEW a \in Auctions
             PROVE  /\ Settled(a) => /\ status[a] = "ENDED"
                                     /\ settlement[a].party = winner[a]
                                     /\ AmountShown(a)
                    /\ /\ status[a] = "ENDED" /\ winner[a] # NoUser
                       /\ ~Settled(a) /\ ~TiedAtTop(a)
                       => /\ Payable(winner[a], a) # {}
                          /\ \A i \in Payable(winner[a], a) : bids[a][i].amount = price[a]
  BY Zenon DEF PaidAsShown
<1>1. ShownIsSettled(a)
  BY DEF HoldsInv, OutcomeInv, AuctionSound
<1> QED BY <1>1, WinnerCanConfirm DEF ShownIsSettled

\* With one server process and no admin overwriting statuses, whoever settled an auction
\* is its winner and paid the price that it shows; of a Dutch auction a step more, when a
\* drop-price job was under way at the acceptance, and nothing is said of one bought
\* directly.  A winner who has not paid yet can confirm the price shown and no other, ties
\* of sealed bids excepted.
THEOREM PaidAsItShows ==
  ASSUME Undisturbed
  PROVE  Spec => []PaidAsShown
<1> QED BY HoldsInvCorrect, KnownPayment, PTL

-----------------------------------------------------------------------------
(* The end of an auction is worked on                                      *)

\* The only fault is a stall: no run of endAuction dies or has a transaction aborted.
OnlyStalls == FaultKinds \subseteq {"stall"}

WorkedOn(a) ==
  /\ status[a] # "ENDED" => endJob[a]
  /\ Owed(a) => RunsOn(a) # {}
  /\ Withheld(a) => \E c \in RunsOn(a) : c.step = "refund"

\* The step leaves auction a alone, and takes neither its job nor a run on it away.
WorkLeft(a) ==
  /\ SameAuction(a)
  /\ status[a] # "ENDED" /\ endJob[a] => endJob'[a]
  /\ \A c \in closing : c.auction = a => c \in closing'

\* Such a step keeps the work on a.
LEMMA LeftIsWorkedOn ==
  ASSUME NEW a \in Auctions, WorkedOn(a), WorkLeft(a)
  PROVE  WorkedOn(a)'
<1>1. /\ Owed(a)' = Owed(a) /\ Withheld(a)' = Withheld(a) /\ status'[a] = status[a]
  BY DEF WorkLeft, SameAuction, Owed, Withheld, Settled, Sealed
<1>2. \A c \in RunsOn(a) : c \in RunsOn(a)'
  BY DEF WorkLeft, SameAuction, RunsOn
<1> QED BY <1>1, <1>2 DEF WorkedOn, WorkLeft

\* A step that concerns no auction leaves all of them their work.
LEMMA QuietLeavesWork ==
  ASSUME TypeOK, Undisturbed, OnlyStalls, NEW a \in Auctions, QuietStep
  PROVE  WorkLeft(a)
<1>1. SameAuction(a)
  BY QuietSteps
<1>2. CASE UNCHANGED vars
  BY <1>1, <1>2 DEF vars, WorkLeft
<1>3. CASE \E d \in Auctions : \/ \E action \in Moderations : ModerateAuction(d, action)
                               \/ EndJobReturns(d) \/ Expire(d)
  BY <1>1, <1>3 DEF Undisturbed, EndJobReturns, Endable, Expire, WorkLeft, TypeOK
<1>4. CASE \E c \in closing : (\E kind \in FaultKinds : Redeliver(c, kind)) \/ Abort(c)
  <2>1. PICK c \in closing : (\E kind \in FaultKinds : Redeliver(c, kind)) \/ Abort(c)
    BY <1>4
  <2>2. ~Abort(c) /\ Redeliver(c, "stall")
    BY <2>1 DEF OnlyStalls, Abort, Redeliver
  <2>3. closing' = closing /\ endJob' = [endJob EXCEPT ![c.auction] = TRUE]
    BY <2>2 DEF Redeliver
  <2> QED BY <1>1, <2>3 DEF WorkLeft, TypeOK
<1>6. CASE \E d \in drops : DropFails(d)
  BY <1>1, <1>6 DEF DropFails, WorkLeft
<1>5. CASE \E u \in Users, amount \in Transfers :
             Deposit(u, amount) \/ WriteDepositRow(u, amount) \/ Withdraw(u, amount)
  BY <1>1, <1>5 DEF Deposit, WriteDepositRow, Withdraw, WorkLeft
<1> QED BY <1>2, <1>3, <1>4, <1>5, <1>6 DEF QuietStep

\* A step that concerns another auction leaves a its work.
LEMMA OthersLeaveWork ==
  ASSUME TypeOK, NEW d \in Auctions, NEW a \in Auctions \ {d}, Concerned(d), Others(d)
  PROVE  WorkLeft(a)
<1>1. SameAuction(a)
  BY DEF Others
<1>2. endJob'[a] = endJob[a]
  <2>1. endJob' = endJob \/ endJob' = [endJob EXCEPT ![d] = FALSE]
    BY DEF Concerned, PlaceBid, AcceptDutch, BuyNow, ConfirmWinnerPayment, CancelAuction,
           ReadPending, WriteActive, EndAuction, TakeDrop, WritePrice, EndAtFloor,
           RefundSealed, SettleWinner
  <2> QED BY <2>1 DEF TypeOK
<1>3. ASSUME NEW c \in closing, c.auction = a
      PROVE  c \in closing'
  <2>1. ASSUME NEW r \in closing, r.auction = d, RefundSealed(r) \/ SettleWinner(r)
        PROVE  c \in closing'
    <3>1. c # r
      BY <1>3, <2>1
    <3> QED BY <2>1, <3>1 DEF RefundSealed, SettleWinner
  <2>2. ASSUME NEW u \in Users,
               \/ \E amount \in BidAmounts : PlaceBid(u, d, amount) \/ AcceptDutch(u, d, amount)
               \/ BuyNow(u, d)
               \/ ConfirmWinnerPayment(u, d)
        PROVE  c \in closing'
    BY <2>2 DEF PlaceBid, AcceptDutch, BuyNow, ConfirmWinnerPayment
  <2>3. CASE CancelAuction(d) \/ ReadPending(d) \/ WriteActive(d) \/ EndAuction(d)
    BY <2>3 DEF CancelAuction, ReadPending, WriteActive, EndAuction, Determine
  <2>4. CASE TakeDrop(d) \/ \E e \in drops : WritePrice(e) \/ EndAtFloor(e)
    BY <2>4 DEF TakeDrop, WritePrice, EndAtFloor, Determine
  <2> QED BY <2>1, <2>2, <2>3, <2>4 DEF Concerned
<1> QED BY <1>1, <1>2, <1>3 DEF WorkLeft

\* What users do to a leaves the work on it, or it is paid for in the same transaction.
LEMMA UsersLeaveWork ==
  ASSUME TypeOK, NEW a \in Auctions, WorkedOn(a), NEW u \in Users,
         \/ \E amount \in BidAmounts : PlaceBid(u, a, amount) \/ AcceptDutch(u, a, amount)
         \/ BuyNow(u, a)
         \/ ConfirmWinnerPayment(u, a)
         \/ CancelAuction(a)
  PROVE  WorkedOn(a)'
<1>1. ASSUME NEW amount \in BidAmounts, PlaceBid(u, a, amount)
      PROVE  WorkedOn(a)'
  <2>1. status'[a] = "ACTIVE" /\ endJob'[a] = endJob[a] /\ status[a] = "ACTIVE"
    BY <1>1 DEF PlaceBid, CanBid
  <2> QED BY <2>1 DEF WorkedOn, Owed, Withheld
<1>2. ASSUME NEW amount \in BidAmounts, AcceptDutch(u, a, amount)
      PROVE  WorkedOn(a)'
  <2>1. Settled(a)'
    BY <1>2 DEF AcceptDutch, SettleWon, Settled, NoSettlement, TypeOK
  <2>2. status'[a] = "ENDED" /\ ~Sealed(a)'
    BY <1>2 DEF AcceptDutch, Dutch, Sealed, TypeOK
  <2> QED BY <2>1, <2>2 DEF WorkedOn, Owed, Withheld
<1>3. CASE BuyNow(u, a)
  <2>1. Settled(a)' /\ settlement'[a].kind = "DIRECT_SALE" /\ status'[a] = "ENDED"
    BY <1>3 DEF BuyNow, Settled, NoSettlement, TypeOK
  <2> QED BY <2>1 DEF WorkedOn, Owed, Withheld
<1>4. CASE ConfirmWinnerPayment(u, a)
  <2>1. /\ Settled(a)'
        /\ settlement'[a].kind = "WON_AUCTION"
    BY <1>4 DEF ConfirmWinnerPayment, SettleWon, Settled, NoSettlement, TypeOK
  <2>2. /\ status[a] = "ENDED" /\ ~Settled(a)
        /\ UNCHANGED <<terms, status, winner, closing>>
    BY <1>4 DEF ConfirmWinnerPayment
  <2>3. DOMAIN bids'[a] = DOMAIN bids[a] /\ \A i \in DOMAIN bids[a] :
                                              bids'[a][i].refunded = bids[a][i].refunded
    <3>1. PICK b : bids' = [bids EXCEPT ![a] = Mark(a, {b}, "WON")]
      BY <1>4 DEF ConfirmWinnerPayment
    <3>2. bids'[a] = Mark(a, {b}, "WON")
      BY <3>1 DEF TypeOK
    <3> QED BY <3>2, MarkFacts DEF BidStatuses
  <2>4. Withheld(a)' => Withheld(a)
    BY <2>2, <2>3 DEF Withheld, Sealed, Settled, NoSettlement
  <2>5. RunsOn(a)' = RunsOn(a)
    BY <2>2 DEF RunsOn
  <2> QED BY <2>1, <2>2, <2>4, <2>5 DEF WorkedOn, Owed
<1>5. CASE CancelAuction(a)
  <2>1. status'[a] = "CANCELLED" /\ endJob'[a] = endJob[a] /\ status[a] # "ENDED"
    BY <1>5 DEF CancelAuction, TypeOK
  <2> QED BY <2>1 DEF WorkedOn, Owed, Withheld
<1> QED BY <1>1, <1>2, <1>3, <1>4, <1>5

\* Ending a, endAuction takes on what is to be paid and to be released.
LEMMA EndTakesWorkOn ==
  ASSUME OutcomeInv, HoldsInv', NEW a \in Auctions, Determined(a)
  PROVE  WorkedOn(a)'
<1>1. TypeOK /\ NoOutcomeYet(a) /\ status[a] # "ENDED"
  BY DEF OutcomeInv, Inv, AuctionSound, Determined, Endable
<1>2. PICK w, b : /\ status' = [status EXCEPT ![a] = "ENDED"]
                  /\ winner' = [winner EXCEPT ![a] = w]
                  /\ closing' = closing \cup Remaining(a, w, b)
  BY DEF Determined, Determine
<1>3. status'[a] = "ENDED" /\ winner'[a] = w /\ terms' = terms /\ ~Settled(a)'
  BY <1>1, <1>2 DEF Determined, NoOutcomeYet, Settled, TypeOK
<1>4. \A c \in Remaining(a, w, b) : c \in RunsOn(a)'
  BY <1>2, <1>3, RemainingShows DEF RunsOn
<1>5. Owed(a)' => ~Dutch(a)'
  <2>1. HoldsSound(a)'
    BY DEF HoldsInv
  <2>2. Owed(a)' => WonByBid(a)'
    BY DEF Owed, WonByBid, SoldDirectly, Settled, NoSettlement
  <2>3. Dutch(a)' => ~Tied(a)'
    BY DEF Dutch, Tied, Sealed
  <2> QED BY <1>3, <2>1, <2>2, <2>3 DEF HoldsSound, WinnerHolds
<1>6. terms[a].type \in {"ENGLISH", "DUTCH", "SEALED_BID"}
  BY <1>1, CatalogsAssumption DEF TypeOK, AuctionTerms
<1>7. Owed(a)' => RunsOn(a)' # {}
  BY <1>3, <1>4, <1>5, <1>6 DEF Owed, Remaining, Sealed, English, Dutch
<1>8. Withheld(a)' => \E c \in RunsOn(a)' : c.step = "refund"
  BY <1>3, <1>4 DEF Withheld, Remaining, Sealed
<1> QED BY <1>3, <1>7, <1>8 DEF WorkedOn

\* The later transactions of a run do what it was for, and hand on what is left.
LEMMA RunDoesWork ==
  ASSUME OutcomeInv, NEW c \in closing, WorkedOn(c.auction), RefundSealed(c) \/ SettleWinner(c)
  PROVE  WorkedOn(c.auction)'
<1> DEFINE a == c.auction
<1>1. /\ a \in Auctions /\ TypeOK /\ RunShows(c)
      /\ c.winner \in Users \cup {NoUser}
  BY ClosingFacts DEF OutcomeInv, Inv, AuctionSound
<1>2. /\ status[a] = "ENDED" /\ c.winner = winner[a]
      /\ UNCHANGED <<terms, status, winner>>
  BY <1>1 DEF RunShows, RefundSealed, SettleWinner
<1>3. CASE RefundSealed(c)
  <2>1. ~Withheld(a)'
    <3>1. PICK top : RowsProcessed(a, Unprocessed(a), top)
      BY <1>1, <1>3, RefundShape
    <3>2. \A i \in DOMAIN bids'[a] : bids'[a][i].refunded
      BY <3>1 DEF RowsProcessed, RowIs, Unprocessed
    <3> QED BY <3>2 DEF Withheld
  <2>2. Owed(a)' => RunsOn(a)' # {}
    <3> SUFFICES ASSUME winner[a] # NoUser
                 PROVE  [c EXCEPT !.step = "settle"] \in RunsOn(a)'
      BY <1>2 DEF Owed
    <3>1. [c EXCEPT !.step = "settle"] \in closing'
      BY <1>2, <1>3 DEF RefundSealed, AfterRefund
    <3>2. c \in Closing
      BY <1>1 DEF TypeOK
    <3> QED BY <1>2, <3>1, <3>2 DEF RunsOn, Closing
  <2> QED BY <1>2, <2>1, <2>2 DEF WorkedOn
<1>4. CASE SettleWinner(c)
  <2>1. Settled(a)'
    BY <1>1, <1>4 DEF SettleWinner, SettleWon, Settled, NoSettlement, TypeOK
  <2>2. DOMAIN bids'[a] = DOMAIN bids[a] /\ \A i \in DOMAIN bids[a] :
                                              bids'[a][i].refunded = bids[a][i].refunded
    <3>1. bids'[a] = Mark(a, {c.bid}, "WON")
      BY <1>1, <1>4 DEF SettleWinner, TypeOK
    <3> QED BY <1>1, <3>1, MarkFacts DEF BidStatuses
  <2>3. Withheld(a)' => Withheld(a)
    BY <1>1, <1>2, <2>2 DEF Withheld, Sealed, RunShows, SoldDirectly
  <2>4. ASSUME NEW r \in RunsOn(a), r.step = "refund"
        PROVE  r \in RunsOn(a)'
    BY <1>2, <1>4, <2>4 DEF SettleWinner, RunsOn
  <2> QED BY <1>2, <2>1, <2>3, <2>4 DEF WorkedOn, Owed
<1> QED BY <1>3, <1>4

\* The auction that a step concerns is still worked on.
LEMMA ConcernedWork ==
  ASSUME OutcomeInv, HoldsInv', NEW d \in Auctions, WorkedOn(d), Concerned(d)
  PROVE  WorkedOn(d)'
<1>1. TypeOK /\ Untouched(d)
  BY DEF OutcomeInv, Inv, AuctionSound
<1>2. ASSUME NEW u \in Users,
             \/ \E amount \in BidAmounts : PlaceBid(u, d, amount) \/ AcceptDutch(u, d, amount)
             \/ BuyNow(u, d)
             \/ ConfirmWinnerPayment(u, d)
      PROVE  WorkedOn(d)'
  BY <1>1, <1>2, UsersLeaveWork
<1>3. CASE CancelAuction(d)
  <2>1. Seller(d) \in Users
    BY <1>1, CatalogsAssumption DEF TypeOK, Seller, AuctionTerms
  <2> QED BY <1>1, <1>3, <2>1, UsersLeaveWork
<1>4. CASE ReadPending(d) \/ WriteActive(d)
  <2>1. status[d] # "ENDED" /\ status'[d] # "ENDED" /\ endJob' = endJob
    BY <1>1, <1>4 DEF ReadPending, WriteActive, Untouched, TypeOK
  <2> QED BY <2>1 DEF WorkedOn, Owed, Withheld
<1>5. CASE EndAuction(d)
  BY <1>1, <1>5, EndTakesWorkOn, EndDetermines
<1>8. CASE TakeDrop(d) \/ \E e \in drops : e.auction = d /\ (WritePrice(e) \/ EndAtFloor(e))
  <2>1. CASE Determined(d)
    BY <2>1, EndTakesWorkOn
  <2>2. CASE ~Determined(d)
    <3>1. PriceOnly(d) /\ endJob' = endJob
      BY <1>8, <2>2, DropActs DEF TakeDrop, WritePrice, EndAtFloor
    <3>2. Owed(d)' = Owed(d) /\ Withheld(d)' = Withheld(d) /\ RunsOn(d)' = RunsOn(d)
      BY <3>1 DEF PriceOnly, Owed, Withheld, RunsOn, Settled, Sealed
    <3> QED BY <3>1, <3>2 DEF PriceOnly, WorkedOn
  <2> QED BY <2>1, <2>2
<1>6. ASSUME NEW c \in closing, c.auction = d, RefundSealed(c) \/ SettleWinner(c)
      PROVE  WorkedOn(d)'
  <2>1. WorkedOn(c.auction)'
    BY <1>6, RunDoesWork
  <2> QED BY <1>6, <2>1
<1>7. CASE CancelAuction(d) \/ ReadPending(d) \/ WriteActive(d) \/ EndAuction(d)
  BY <1>3, <1>4, <1>5, <1>7
<1> QED BY <1>2, <1>6, <1>7, <1>8 DEF Concerned

\* Every step keeps the work on every auction.
LEMMA NextWork ==
  ASSUME Undisturbed, OnlyStalls, HoldsInv, HoldsInv', [Next]_vars, NothingForgotten
  PROVE  NothingForgotten'
<1>1. OutcomeInv /\ TypeOK
  BY DEF HoldsInv, OutcomeInv, Inv
<1>2. \A a \in Auctions : WorkedOn(a)
  BY DEF NothingForgotten, WorkedOn
<1>3. ASSUME QuietStep, NEW a \in Auctions
      PROVE  WorkedOn(a)'
  BY <1>1, <1>2, <1>3, QuietLeavesWork, LeftIsWorkedOn
<1>4. ASSUME NEW d \in Auctions, Concerned(d), Others(d), NEW a \in Auctions
      PROVE  WorkedOn(a)'
  BY <1>1, <1>2, <1>4, OthersLeaveWork, LeftIsWorkedOn, ConcernedWork
<1>5. \A a \in Auctions : WorkedOn(a)'
  BY <1>1, <1>3, <1>4, StepConcerns
<1> QED BY <1>5 DEF NothingForgotten, WorkedOn

\* While runs of endAuction stall at the most, one server process forgets nothing that is
\* left to do when an auction ends, whatever bids, direct sales, cancellations and
\* confirmations come in between and however often its job is delivered.
THEOREM EndsAreWorkedOff ==
  ASSUME Undisturbed, OnlyStalls
  PROVE  Spec => []NothingForgotten
<1>1. Init => NothingForgotten
  BY DEF Init, NothingForgotten, Owed, Withheld
<1>2. NothingForgotten /\ HoldsInv /\ HoldsInv' /\ [Next]_vars => NothingForgotten'
  BY NextWork
<1> QED BY <1>1, <1>2, HoldsInvCorrect, PTL DEF Spec
=============================================================================

---------------------------- MODULE TableLayouts ----------------------------
(***************************************************************************)
(* The three layouts of one table (row_vs_col.rs): rows, columns, and      *)
(* pages of PageRows rows kept by columns.  A row has ten columns of       *)
(* integers in the code, and its columns are numbered from 0; so are rows. *)
(* Every row goes into each layout.                                        *)
(***************************************************************************)
EXTENDS Integers, Sequences, SequencesExt

CONSTANTS Columns,   \* 10
          PageRows,  \* PAGE_ROWS; with 0, get divides by zero
          Values,    \* what a cell holds
          MaxRows    \* bound: rows inserted

ASSUME LayoutConstants == /\ Columns \in Nat \ {0} /\ PageRows \in Nat \ {0}
                          /\ Values \subseteq Int /\ MaxRows \in Nat

VARIABLES
  rowData,  \* RowStore: a sequence of rows
  colData,  \* ColStore: a sequence for each column
  pages     \* PaxStore: a sequence of pages

tableVars == <<rowData, colData, pages>>

ColumnIds == 0 .. (Columns - 1)
TableRow  == [ColumnIds -> Values]

\* A page has a row from the start.
PageType  == [columns : [ColumnIds -> Seq(Values)], rows : 1 .. PageRows]

TableTypeOK ==
  /\ rowData \in Seq(TableRow)
  /\ colData \in [ColumnIds -> Seq(Values)]
  /\ pages \in Seq(PageType)

EmptyColumns == [c \in ColumnIds |-> <<>>]
Push(cols, row) == [c \in ColumnIds |-> Append(cols[c], row[c])]

TableInit == rowData = <<>> /\ colData = EmptyColumns /\ pages = <<>>

\* PaxStore::insert.  Mutant: a page takes one row more.
PageOverfull(pgs) == pgs = <<>> \/ Last(pgs).rows > PageRows
NeedsPage(pgs)    == pgs = <<>> \/ Last(pgs).rows = PageRows

PaxInsert(row) ==
  LET open == IF NeedsPage(pages)
              THEN Append(pages, [columns |-> EmptyColumns, rows |-> 0]) ELSE pages
      last == Last(open)
  IN  [open EXCEPT ![Len(open)] = [columns |-> Push(last.columns, row),
                                   rows    |-> last.rows + 1]]

InsertRow(row) ==
  /\ Len(rowData) < MaxRows
  /\ rowData' = Append(rowData, row)
  /\ colData' = Push(colData, row)
  /\ pages'   = PaxInsert(row)

TableNext == \E row \in TableRow : InsertRow(row)

TableSpec == TableInit /\ [][TableNext]_tableVars

-----------------------------------------------------------------------------
\* get and get_col_sum of each layout.

RowGet(r, c) == rowData[r + 1][c]
ColGet(r, c) == colData[c][r + 1]
PaxGet(r, c) == pages[(r \div PageRows) + 1].columns[c][(r % PageRows) + 1]

\* A loop over a column adds one value after another.
Total(s) == LET sum[n \in 0 .. Len(s)] == IF n = 0 THEN 0 ELSE sum[n - 1] + s[n]
            IN  sum[Len(s)]

RowSum(c) == Total([r \in DOMAIN rowData |-> rowData[r][c]])
ColSum(c) == Total(colData[c])
PaxSum(c) == Total([i \in DOMAIN pages |-> Total(pages[i].columns[c])])

\* get finds every cell where the row store has it, in each layout, and the layouts
\* sum a column to the same total.  In pages, a row's page and place follow from its
\* number alone, which is right only if every page but the last is full (99-104).
LayoutsAgree ==
  \A c \in ColumnIds :
    /\ ColSum(c) = RowSum(c) /\ PaxSum(c) = RowSum(c)
    /\ \A r \in 0 .. (Len(rowData) - 1) :
         /\ ColGet(r, c) = RowGet(r, c)
         /\ r \div PageRows < Len(pages)
         /\ r % PageRows < Len(pages[(r \div PageRows) + 1].columns[c])
         /\ PaxGet(r, c) = RowGet(r, c)
=============================================================================

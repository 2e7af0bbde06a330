SPECIFICATION Spec
CONSTANTS
  Accounts = {ann, ben}
  Names = {n1, n2, n3}
  Workers = {w1, w2}
  MaxRenames = 3
  MaxLogins = 4
  NoLogin = NoLogin
SYMMETRY Symmetry
INVARIANTS TypeOK TokensKeepAccount RowsExplained RefusedOnlyForReuse

---------------------------- MODULE ConstTables ----------------------------
(***************************************************************************)
(* The enumerations of js/common/const.js, one definition per block of the *)
(* script, in the order of the script.  A block creates the container,     *)
(* assigns its instances, collects them with a for-in loop and then adds   *)
(* its functions; Registry is that shape, an EXCEPT is what a block does   *)
(* differently.  Instances are <<attribute, code>> in the order they are   *)
(* assigned; labels, colours and message keys are left out.                *)
(***************************************************************************)
EXTENDS Integers, Sequences

\* .value of a function object or of an instance without a code: no code has this number.
Undefined == -999999

(***************************************************************************)
(* type: the container; defs: its instances; early, late: the functions    *)
(* assigned before and after the loop; over: the container the loop        *)
(* enumerates; last: an instance the loop moves to the end; values: the    *)
(* container whose values() returns the collected objects; strict: whether *)
(* getInstanceOf compares with ===.                                        *)
(***************************************************************************)
Registry(type, defs) ==
    [type |-> type, defs |-> defs, early |-> <<>>,
     late |-> <<"getInstanceOf", "values">>, over |-> type, last |-> "none",
     values |-> type, strict |-> FALSE]

CurrencyType == [Registry("CurrencyType", <<
    <<"USD", 15>>, <<"CAD", 25>>, <<"EUR", 26>> >>) EXCEPT
    !.late = <<"getInstanceOf", "getByName", "getAllCurrencyTypes">>, !.values = "none"]

CallingCodeType == [Registry("CallingCodeType", <<
    <<"Afghanistan", 93>>, <<"Malaysia", 60>>, <<"Maldives", 960>>, <<"Bangladesh", 880>>,
    <<"Philippines", 63>>, <<"Bhutan", 975>>, <<"Nepal", 977>>, <<"Brunei", 673>>,
    <<"Myanmar", 95>>, <<"Pakistan", 92>>, <<"Mexico", 52>>, <<"US", 1>>, <<"Cambodia", 855>>,
    <<"China", 86>>, <<"Singapore", 65>>, <<"SouthKorea", 82>>, <<"India", 91>>,
    <<"Indonesia", 62>>, <<"SriLanka", 94>>, <<"Thailand", 66>>, <<"Vietnam", 84>>,
    <<"Laos", 856>>, <<"Brazil", 55>>, <<"Nigeria", 234>>, <<"ZA", 27>>, <<"GH", 233>>,
    <<"Australia", 61>>, <<"NewZealand", 64>>, <<"Iran", 98>>, <<"Canada", 1>>,
    <<"HongKong", 852>> >>) EXCEPT
    !.late = <<"getInstanceOf", "getByName", "getByCurrency">>, !.values = "none"]

CountryType == [Registry("CountryType", <<
    <<"US", 13>>, <<"CA", 27>> >>) EXCEPT
    !.late = <<"getInstanceOf", "getByName", "getByCurrency", "values">>]

ManagerStatusType == Registry("ManagerStatusType", <<
    <<"INACTIVE", 0>>, <<"ACTIVE", 1>> >>)

GameType_1 == <<
    <<"SLOT", 1>>, <<"CASINO", 2>>, <<"Sport", 4>>, <<"FH", 8>>, <<"CARD", 16>>,
    <<"ESport", 32>>, <<"LOTTERY", 64>>, <<"P2P", 128>>, <<"TABLE", 256>>, <<"OTHERS", 512>>,
    <<"ARCADE", 1024>>, <<"COCK_FIGHTING", 2048>> >>

GameType == [Registry("GameType", GameType_1 \o <<
    <<"RAIN", 4096>>, <<"CRASH", 8192>> >>) EXCEPT
    !.late = <<"getInstanceOf", "values", "uniques">>, !.last = "OTHERS"]

CompanyBankBankStatusType == Registry("CompanyBankBankStatusType", <<
    <<"INACTIVE", -1>>, <<"CUSTOMIZE", 0>>, <<"ACTIVE", 1>> >>)

CompanyBankPurposeType == [Registry("CompanyBankPurposeType", <<
    <<"INFLOW", 1>>, <<"OUTFLOW", 2>> >>) EXCEPT
    !.late = <<"getInstanceOf", "values", "isInflow", "isOutflow">>]

AffiliateStatusType == Registry("AffiliateStatusType", <<
    <<"INACTIVE", 0>>, <<"ACTIVE", 1>> >>)

AffiliateDomainStatusType == Registry("AffiliateDomainStatusType", <<
    <<"INACTIVE", 0>>, <<"ACTIVE", 1>> >>)

AffiliateCategoryType == Registry("AffiliateCategoryType", <<
    <<"LANDING_PAGE", 0>>, <<"MAIN_PAGE", 1>>, <<"EMAIL", 2>>, <<"SMS", 3>>, <<"QQ", 4>>,
    <<"FORUM", 5>>, <<"SALES", 6>>, <<"WECHAT", 7>>, <<"OTHER", 99>> >>)

MoneyTransactionStatusType_1 == <<
    <<"NEW", 0>>, <<"PENDING_APPROVAL", 1>>, <<"REJECTED", -1>>, <<"CONFIRMED", 2>>,
    <<"CLOSE", -2>>, <<"ON_HOLD", 3>>, <<"PROCESSING", 4>>, <<"REVERTED", -3>> >>

MoneyTransactionStatusType == Registry("MoneyTransactionStatusType", MoneyTransactionStatusType_1 \o <<
    <<"AWAITED", 5>>, <<"PGPROCESSING", 6>> >>)

SyncTaskStatusType == Registry("SyncTaskStatusType", <<
    <<"INACTIVE", 0>>, <<"ACTIVE", 1>> >>)

GameStatusType == Registry("GameStatusType", <<
    <<"AUTO_CREATED", -2>>, <<"INVISIBLE", -1>>, <<"INACTIVE", 0>>, <<"ACTIVE", 1>> >>)

WebsiteStatusType == [Registry("WebsiteStatusType", <<
    <<"INACTIVE", -1>>, <<"MAINTENANCE", 0>>, <<"ACTIVE", 1>> >>) EXCEPT
    !.early = <<"html">>]

RankingType == Registry("RankingType", <<
    <<"MANUAL", 0>>, <<"AUTO", 1>> >>)

\* mutant: the codes of two statuses are swapped
ProviderStatusTypeSwapped == [Registry("ProviderStatusType", <<
    <<"INACTIVE", 0>>, <<"MAINTENANCE", -1>>, <<"ACTIVE", 1>> >>) EXCEPT
    !.early = <<"html">>]

ProviderStatusType == [Registry("ProviderStatusType", <<
    <<"INACTIVE", -1>>, <<"MAINTENANCE", 0>>, <<"ACTIVE", 1>> >>) EXCEPT
    !.early = <<"html">>]

VendorStatusType == [Registry("VendorStatusType", <<
    <<"INVISIBLE", -1>>, <<"MAINTENANCE", 0>>, <<"ACTIVE", 1>> >>) EXCEPT
    !.early = <<"html">>]

BonusTemplateStatusType == Registry("BonusTemplateStatusType", <<
    <<"INACTIVE", 0>>, <<"ACTIVE", 1>> >>)

CommissionStructureStatusType == Registry("CommissionStructureStatusType", <<
    <<"INACTIVE", 0>>, <<"ACTIVE", 1>> >>)

MessageType_1 == <<
    <<"TOP_BANNER", 0>>, <<"RUNNING", 1>>, <<"MEMBER", 2>>, <<"POP", 3>>, <<"SYSTEM", 4>>,
    <<"PROMOTION", 5>>, <<"SLOT_SLIDER", 6>>, <<"SLOT_TOP_BANNER", 7>>, <<"EMAIL", 8>>,
    <<"SMS", 9>> >>

MessageType_2 == <<
    <<"FEATURE_GAME", 10>>, <<"RANK_WINNER", 11>>, <<"SPORT_SLIDER", 12>>,
    <<"CASINO_TOP_BANNER", 13>>, <<"PROMOTION_TOP_BANNER", 14>>, <<"TABLE_TOP_BANNER", 15>>,
    <<"REGISTER_SLIDER", 16>>, <<"REGISTER_SUCCESS_SLIDER", 17>>, <<"SOCIAL_MEDIA", 18>>,
    <<"RANK_BONUS", 20>> >>

MessageType == Registry("MessageType", MessageType_1 \o MessageType_2 \o <<
    <<"RANK_PAYMENT", 21>>, <<"REFERRAL_TEAMS_AND_CONDITIONS", 22>>,
    <<"SPORT_TOP_BANNER", 23>>, <<"FISH_TOP_BANNER", 24>>, <<"ARCADE_TOP_BANNER", 25>>,
    <<"FOOTER_FLOAT_BANNER", 26>>, <<"LOTTERY_TOP_BANNER", 27>>, <<"SIDE_MENU_BANNER", 28>>,
    <<"REFERRAL_RANKING_LIST", 29>> >>)

MessageContentType == Registry("MessageContentType", <<
    <<"TEXT", 0>>, <<"LINK", 1>> >>)

MessageRoleType == Registry("MessageRoleType", <<
    <<"GUEST", 1>>, <<"PLAYER", 2>> >>)

MessageStatusType == Registry("MessageStatusType", <<
    <<"INACTIVE", 0>>, <<"ACTIVE", 1>> >>)

CustomerServiceStatusType == Registry("CustomerServiceStatusType", <<
    <<"INACTIVE", 0>>, <<"ACTIVE", 1>> >>)

SendBoxType == Registry("SendBoxType", <<
    <<"NO", 0>>, <<"YES", 1>> >>)

ManagerRoleStatusType == Registry("ManagerRoleStatusType", <<
    <<"INACTIVE", 0>>, <<"ACTIVE", 1>> >>)

BonusAwardingType == Registry("BonusAwardingType", <<
    <<"MANUAL", 0>>, <<"DEPOSIT", 1>>, <<"TURNOVER", 2>>, <<"LOSS", 3>>, <<"SPECIAL", 4>> >>)

AwardingMethodType == Registry("AwardingMethodType", <<
    <<"MANUAL", 0>>, <<"AUTOMATIC", 1>> >>)

CalculationType == Registry("CalculationType", <<
    <<"NONE", 0>>, <<"FRESHFOUNDS", 1>>, <<"ONESINGLE", 2>>, <<"ACCUMULATE", 3>> >>)

PeriodTypeOfBonus == Registry("PeriodType", <<
    <<"DAILY", 1>>, <<"WEEKLY", 2>>, <<"MONTHLY", 3>> >>)

AmountType == Registry("AmountType", <<
    <<"PERCENTAGE", 0>>, <<"FIXED", 1>> >>)

AccountBonusTurnoverStatusType == Registry("AccountBonusTurnoverStatusType", <<
    <<"INACTIVE", 0>>, <<"ACTIVE", 1>>, <<"COMPLETE", 2>>, <<"RETURN_TO_MAIN", 3>>,
    <<"SUSPEND", -1>>, <<"EXPIRED", -2>>, <<"AUTO_FORCE_SERVE", -3>>,
    <<"MANUAL_FORCE_SERVE", -4>> >>)

PromotionPurposeType == Registry("PromotionPurposeType", <<
    <<"ACQUISITION", 0>>, <<"CONVERSION", 1>>, <<"RETENTION", 2>>, <<"REACTIVATION", 3>> >>)

BonusCategoryType == Registry("BonusCategoryType", <<
    <<"NORMAL", 0>>, <<"FDB", 1>>, <<"REBATE", 2>>, <<"CASHBACK", 3>>, <<"RELOAD_BONUS", 4>>,
    <<"REALTIME_REBATE", 5>>, <<"BIRTHDAY", 6>>, <<"KYC", 7>>, <<"REGISTRATION", 9>>,
    <<"FREE_CREDIT", 10>>, <<"SPIN_AND_WIN", 11>>, <<"SYSTEM", 99>> >>)

PeriodType == Registry("PeriodType", <<
    <<"INDEFINITE", 0>>, <<"DAILY", 1>>, <<"WEEKLY", 2>>, <<"MONTHLY", 3>> >>)

DBOrderType == Registry("DBOrderType", <<
    <<"ASC", 0>>, <<"DESC", 1>> >>)

PlatformType == Registry("PlatformType", <<
    <<"WEB", 1>>, <<"HTML5", 2>>, <<"APP", 4>> >>)

AccountStatusType == [Registry("AccountStatusType", <<
    <<"INACTIVED", 0>>, <<"ACTIVE", 1>>, <<"SUSPEND", 2>>, <<"LOCKED", 3>> >>) EXCEPT
    !.late = <<"getInstanceOf">>, !.values = "none"]

ContactVerifiedType == [Registry("ContactVerifiedType", <<
    <<"Email", 1>>, <<"Phone", 2>> >>) EXCEPT
    !.late = <<"getInstanceOf">>, !.values = "none"]

ContactType == Registry("ContactType", <<
    <<"Email", 1>>, <<"Phone", 2>> >>)

WithdrawalRestrictionType == Registry("WithdrawalRestrictionType", <<
    <<"PERSONAL_INFO", 1>>, <<"CONTACT", 2>>, <<"DOCUMENT", 3>>, <<"OTHER", 99>> >>)

LoginType == Registry("LoginType", <<
    <<"Account", 0>>, <<"Phone", 1>>, <<"Email", 2>>, <<"Facebook", 3>>, <<"Google", 4>> >>)

WebsiteSystemSettingType_1 == <<
    <<"FEATURE_GAME", 1>>, <<"WEBSITE_STATUS", 2>>, <<"MAINTAIN_START_DATE", 3>>,
    <<"MAINTAIN_END_DATE", 4>>, <<"PG_PROXY_PRIORITY", 5>>, <<"PG_MAX_FAILED", 6>>,
    <<"PG_TEST_ACCOUNT", 7>>, <<"CS_LIVE_CHAT", 8>>, <<"BAN_COUNTRIES", 9>>,
    <<"BO_DOMAIN", 10>>, <<"REGISTER_SUCCESS_MESSAGE", 11>>, <<"BO_AFFILIATE_DOMAIN", 12>>,
    <<"DEFAULT_BONUS_TEMPLATE", 13>>, <<"CS_MAIL", 14>>, <<"CS_QQ", 15>>, <<"CS_WECHAT", 16>>,
    <<"APP_VERSION", 17>>, <<"MIN_DEPOSIT_AMOUNT", 18>>, <<"MIN_WITHDRAW_AMOUNT", 19>>,
    <<"MIN_FORCE_SERVE", 20>>, <<"DEPOSIT_SETTING_ORDER", 21>>, <<"RANKING_TYPE", 22>>,
    <<"ALL_PAGE_SEO", 24>>, <<"DEPOSIT_ALLOW_PENDING_PAYMENT", 25>>,
    <<"RESTRICT_DUPLICATE_BANKACCOUNTS", 26>>, <<"BANK_AMOUNT_LIMIT", 27>>,
    <<"DEPOSIT_METHOD_ACTIVE_SETTING", 28>>, <<"WITHDRAWAL_SETTING_ORDER", 29>>,
    <<"WITHDRAWAL_METHOD_ACTIVE_SETTING", 30>>, <<"WITHDRAWAL_ALLOW_PENDING_PAYMENT", 31>>,
    <<"WITHDRAWAL_RESTRICTION", 32>>, <<"WITHDRAWAL_OTP", 33>>, <<"VERIFY_DOCUMENT", 34>>,
    <<"VERIFY_BANK", 35>>, <<"WITHDRAWAL_REVERT", 36>>,
    <<"DEPOSIT_ALLOW_PENDING_PAYMENT_AFTER_PG", 37>>,
    <<"UPLOAD_VERIFY_BANK_SECOND_PHOTO", 38>>, <<"FORGET_PASSWORD_FUNCTION_TIME_LIMIT", 39>>,
    <<"FORGET_PASSWORD_SEND_TIME_LIMIT", 40>>, <<"AFFILIATE_WITHDRAWAL_RESTRICTION", 44>>,
    <<"CLOSE_AUTO_VERIFY_WITHDRAWAL", 46>>, <<"ALLOW_VIP_EX", 47>>,
    <<"DIRECTLY_VERIFY_PHONE_AFTER_ADDING", 48>> >>

WebsiteSystemSettingType == [Registry("WebsiteSystemSettingType", WebsiteSystemSettingType_1 \o <<
    <<"ONLY_ALREADY_VERIFIED_TO_WITHDRAW", 49>>, <<"VERIFY_DOCUMENT_PAGE", 50>>,
    <<"ENABLE_MULTIPLE_REGISTER_AND_LOGIN_FEATURES", 53>>,
    <<"ENABLE_FAST_REGISTER_AND_LOGIN", 54>>, <<"ALLOW_FORCE_SERVE", 57>>,
    <<"NEED_OTP_VERIFICATION_TO_WITHDRAW_TO_PLAYER", 58>>,
    <<"WITHDRAWAL_RESTRICTED_ACTIVE_PLAYER", 71>>, <<"SPIN_AND_WIN_SETTING", 76>> >>) EXCEPT
    !.late = <<"getInstanceOf">>, !.values = "none"]

WebsiteLoginSettingType == [Registry("WebsiteLoginSettingType", <<
    <<"PHONE", 1>>, <<"EMAIL", 2>>, <<"FACEBOOK", 3>>, <<"GOOGLE", 4>> >>) EXCEPT
    !.late = <<"getInstanceOf">>, !.values = "none"]

UserType == [Registry("UserType", <<
    <<"COMPANY", 5>>, <<"HOUSE", 4>>, <<"MANAGER", 3>>, <<"MASTER_AGENT", 2>>, <<"AGENT", 1>>,
    <<"PLAYER", 0>> >>) EXCEPT
    !.late = <<"getInstanceOf">>, !.values = "none"]

UserLevel == [Registry("UserLevel", <<
    <<"COMPANY", 0>>, <<"HOUSE", 1>>, <<"MANAGER", 2>>, <<"MASTER_AGENT", 3>>, <<"AGENT", 4>>,
    <<"PLAYER", 5>> >>) EXCEPT
    !.late = <<"getInstanceOf">>, !.values = "none"]

CashTransferType == [Registry("CashTransferType", <<
    <<"Deposit", 0>>, <<"Withdraw", 1>> >>) EXCEPT
    !.late = <<"getInstanceOf">>, !.values = "none"]

PlatformGameType == [Registry("PlatformGameType", <<
    <<"JDB_CASINO", Undefined>>, <<"JDB_SLOT", Undefined>>, <<"SV388_LIVE", Undefined>>,
    <<"CITI_LIVE", Undefined>>, <<"AG_LIVE", Undefined>>, <<"MG_LIVE", Undefined>>,
    <<"FH_FH", Undefined>>, <<"LOTTERY3D_LIVE", Undefined>>, <<"ALLBET_LIVE", Undefined>>,
    <<"GOLDENRACE_LIVE", Undefined>> >>) EXCEPT
    !.late = <<"getInstanceByName">>, !.values = "none"]

PGAccountStatusType == Registry("PGAccountStatusType", <<
    <<"INACTIVE", -1>>, <<"MAINTENANCE", 0>>, <<"ACTIVE", 1>> >>)

PaymentDisplaySettingStatusType == Registry("PaymentDisplaySettingStatusType", <<
    <<"INACTIVE", 0>>, <<"ACTIVE", 1>> >>)

NotificationSettingType == Registry("NotificationSettingType", <<
    <<"DEPOSIT", 0>>, <<"WITHDRAWAL", 1>>, <<"PLAYER", 2>> >>)

AffiliateType == Registry("AffiliateType", <<
    <<"INACTIVE", 0>>, <<"ACTIVE", 1>> >>)

AffiliateApplicationType == [Registry("AffiliateApplicationType", <<
    <<"REGISTRATIONS", 0>>, <<"WITHDRAWALS", 1>>, <<"CONTACT_INFO", 2>>, <<"BANK_INFO", 3>> >>) EXCEPT
    !.over = "AffiliateType"]

DocumentType_1 == <<
    <<"ID", 1>>, <<"HEADSHOT", 2>>, <<"PASSPORT", 4>>, <<"DRIVER_LICENSE", 8>>,
    <<"BANK_STATEMENT", 16>>, <<"PAN_CARD", 32>>, <<"GSIS_ID", 64>>, <<"SCHOOL_ID", 128>>,
    <<"PRC_ID", 256>>, <<"VOTERS_ID", 512>> >>

DocumentType_2 == <<
    <<"SENIOR_CITIZEN_ID", 1024>>, <<"UNIFIED_MULTI_PURPOSE_ID", 2048>>,
    <<"BARANGAY_CERTIFICATE", 4096>>, <<"FOREIGN_CERTIFICATE_OF_REGISTRATION", 8192>>,
    <<"SOCIAL_SECURITY_SYSTEM_ID", 16384>>, <<"TIN_CARD", 32768>>, <<"POSTAL_ID", 65536>>,
    <<"PAG_IBIG_LOYALTY_ID", 131072>>, <<"PHILHEALTH_CARD", 262144>>,
    <<"CREDIT_CARD_STATEMENT", 524288>>, <<"UTILITIES_BILL", 1048576>> >>

DocumentType == [Registry("DocumentType", DocumentType_1 \o DocumentType_2 \o <<
    <<"SURECASH", 7>>, <<"CPF", 9>>, <<"UPI", 13>> >>) EXCEPT
    !.late = <<"getInstanceOf", "getValuesByCurrency", "getAffiliateAddressType",
               "values", "getFrontFieldName", "getBackFieldName", "getOtherFieldName">>]

BankType == Registry("BankType", <<
    <<"LOCAL_BANK", 0>>, <<"ONLINE_BANKING", 1>>, <<"CREDITCARD", 40>> >>)

PaymentType_1 == <<
    <<"NOT_FOUND", -1>>, <<"LOCAL_BANKING", 0>>, <<"ONLINE_BANKING", 1>>, <<"ALIPAYSCAN", 2>>,
    <<"ALIPAYWAP", 3>>, <<"ALIPAYH5", 4>>, <<"WECHATSCAN", 5>>, <<"WECHATWAP", 6>>,
    <<"WECHATH5", 7>>, <<"JINGDONGSCAN", 8>>, <<"JINGDONGWAP", 9>>, <<"JINGDONGH5", 10>>,
    <<"QQPAYSCAN", 11>>, <<"QQPAYWAP", 12>>, <<"QQPAYH5", 13>>, <<"UNIONPAYSCAN", 14>>,
    <<"BAIDUSCAN", 15>>, <<"QUICKPAY", 16>>, <<"TENPAYWAP", 18>>, <<"TENPAYSCAN", 19>>,
    <<"BAIDUWAP", 20>>, <<"IFPAYSCAN", 22>>, <<"IFPAYWAP", 23>>, <<"ALIPAYTRANSFER", 34>>,
    <<"WECHATTRANSFER", 35>>, <<"QUICKPASSWAP", 38>>, <<"QQTRANSFER", 42>>,
    <<"MOMOPAYTRANSFER", 43>>, <<"BKASHWALLET", 44>>, <<"ROCKETWALLET", 45>> >>

PaymentType_2 == <<
    <<"NAGADWALLET", 46>>, <<"BKASHTRANSFER", 47>>, <<"ROCKETTRANSFER", 48>>,
    <<"NAGADTRANSFER", 49>>, <<"MOMOPAYSCAN", 50>>, <<"ZALOSCAN", 51>>, <<"UPI", 52>>,
    <<"UNIONPAYH5", 53>>, <<"BAIDUH5", 54>>, <<"QUICKPAYH5", 55>>, <<"PHONEPEWALLET", 56>>,
    <<"PHONEPETRANSFER", 57>>, <<"EASYPAISAWALLET", 58>>, <<"EASYPAISATRANSFER", 59>>,
    <<"JAZZCASHWALLET", 60>>, <<"JAZZCASHTRANSFER", 61>>, <<"E_SNAPPEDWALLET", 62>>,
    <<"IMPS", 63>>, <<"CASHMAALWALLET", 64>>, <<"CASHMAALTRANSFER", 65>>,
    <<"GCASHWALLET", 66>>, <<"GCASHTRANSFER", 67>>, <<"GRABPAYWALLET", 68>>,
    <<"GRABPAYTRANSFER", 69>>, <<"USDT_TRC20", 70>>, <<"USDT_ERC20", 71>>, <<"USDT_OMNI", 72>>,
    <<"PAYMAYAWALLET", 73>>, <<"PAYMAYATRANSFER", 74>>, <<"UPAYWALLET", 75>>,
    <<"UPAYTRANSFER", 76>> >>

PaymentType_3 == <<
    <<"MALDOPAYWALLET", 77>>, <<"TOUCHNGOTRANSFER", 78>>, <<"BOOSTWALLETTRANSFER", 79>>,
    <<"USD", 80>>, <<"EUR", 81>>, <<"GOLD", 82>>, <<"GPAYTRANSFER", 83>>,
    <<"PAYTMTRANSFER", 84>>, <<"PAYTMWALLET", 85>>, <<"MOBIKWIK", 86>>, <<"JETONWALLET", 87>>,
    <<"JETONGO", 88>>, <<"FREECHARGE", 89>>, <<"FREECHARGE", 90>>, <<"NEOSURF", 91>>,
    <<"VISACARD", 92>>, <<"AMERICANEXPRESS", 93>>, <<"CARNET", 94>>, <<"VIETTELPAYSCAN", 95>>,
    <<"TRUSTAXIATAPAYWALLET", 96>>, <<"OKWALLETWALLET", 97>>, <<"SURECASHTRANSFER", 98>>,
    <<"TRUSTAXIATAPAYTRANSFER", 99>>, <<"OKWALLETTRANSFER", 100>>, <<"SURECASHWALLET", 101>>,
    <<"CONVENIENCESTORE", 102>>, <<"UPAISAWALLET", 103>>, <<"UPAISATRANSFER", 104>>,
    <<"UPITRANSFER", 105>>, <<"KOMOWALLET", 106>>, <<"SHOPEEPAYWALLET", 107>>,
    <<"SHOPEEPAYTRANSFER", 108>>, <<"USDT_TRC20_TRANSFER", 109>> >>

PaymentType_4 == <<
    <<"USDT_ERC20_TRANSFER", 110>>, <<"USDT_OMNI_TRANSFER", 111>>, <<"ZALOWALLET", 112>>,
    <<"YGPAY", 113>>, <<"PERFECT_MONEY", 114>>, <<"ALFA", 115>>, <<"NIFT", 116>>,
    <<"ONE_LINK_EBANKING", 117>>, <<"HBLKONNECT", 118>>, <<"CONVENIENCESTORETRANSFER", 119>>,
    <<"OMNIPAYWALLET", 120>>, <<"OMNIPAYTRANSFER", 121>>, <<"TAYOCASHWALLET", 122>>,
    <<"TAYOCASHTRANSFER", 123>>, <<"STARPAYWALLET", 124>>, <<"STARPAYTRANSFER", 125>>,
    <<"PRAXIS", 126>>, <<"AMAZONPAYWALLET", 127>>, <<"OLAMONEYWALLET", 128>>,
    <<"ITZCASHWALLET", 129>>, <<"JIOMONEYWALLET", 130>>, <<"MPESAWALLET", 131>>,
    <<"OXYGENWALLET", 132>>, <<"SBIBUDDY", 133>>, <<"ZIPCASH", 134>>, <<"PAYNOWQRCODE", 135>>,
    <<"COINSPH", 136>>, <<"ASENSO", 137>>, <<"BAYAD", 138>>, <<"JUANCASH", 139>>,
    <<"DCPay", 140>>, <<"VIRTUALBANK", 141>>, <<"PIXBANK", 142>>, <<"NAYAPAY", 143>> >>

PaymentType_5 == <<
    <<"QRPAYMENT", 144>>, <<"NAYAPAYTRANSFER", 145>>, <<"PIXBANKTRANSFER", 146>>,
    <<"VISAMC", 147>>, <<"VISAMCTRANSFER", 148>>, <<"BILLEASE", 149>>,
    <<"BILLEASETRANSFER", 150>>, <<"PALAWANPAWNSHOP", 151>>,
    <<"PALAWANPAWNSHOPTRANSFER", 152>>, <<"BTC", 153>>, <<"ETH", 154>>,
    <<"BTC_TRANSFER", 155>>, <<"ETH_TRANSFER", 156>>, <<"FIRSTPAY_TRANSFER", 157>>,
    <<"DUITNOWQR", 158>>, <<"DUITNOWQRTRANSFER", 159>>, <<"DUITNOWEWALLETQR", 160>>,
    <<"DUITNOWEWALLETQRTRANSFER", 161>>, <<"TOUCHNGOWALLET", 162>>, <<"LAZADAWALLET", 163>>,
    <<"IREMIT", 164>>, <<"TRAXIONPAY", 165>>, <<"COINSPHTRANSFER", 166>>,
    <<"JAZZCASHTILLID", 167>>, <<"JAZZCASHTILLIDTRANSFER", 168>>, <<"MONGOPAY", 169>>,
    <<"MONGOPAYTRANSFER", 170>>, <<"ECPAY", 171>>, <<"ECPAYTRANSFER", 172>>,
    <<"SCRATCHCARD", 173>>, <<"SCRATCHCARDTRANSFER", 174>>, <<"GCASHQR", 175>>,
    <<"PAYMAYAQR", 176>>, <<"UPIQR", 177>> >>

PaymentType == Registry("PaymentType", PaymentType_1 \o PaymentType_2 \o PaymentType_3 \o PaymentType_4 \o PaymentType_5 \o <<
    <<"ONLINEBANKINGQR", 178>>, <<"CARDANO", 179>>, <<"DOGECOIN", 180>>, <<"LITECOIN", 181>>,
    <<"XRP", 182>>, <<"TRON", 183>>, <<"CARDANO_TRANSFER", 184>>, <<"DOGECOIN_TRANSFER", 185>>,
    <<"LITECOIN_TRANSFER", 186>>, <<"XRP_TRANSFER", 187>>, <<"TRON_TRANSFER", 188>>,
    <<"BOOST", 189>>, <<"BIGPAY", 190>>, <<"BIGPAYTRANSFER", 191>>, <<"BANANAPAY", 192>>,
    <<"PDAX", 193>>, <<"EMANGO", 194>> >>)

CompanyBankPaymentType_1 == <<
    <<"REAL_BANK", 1>>, <<"WE_CHAT", 2>>, <<"ALI_PAY", 3>>, <<"QQ", 4>>, <<"MOMO_PAY", 5>>,
    <<"BKASH", 6>>, <<"ROCKET", 7>>, <<"NAGAD", 8>>, <<"PHONEPE", 9>>, <<"EASYPAISA", 10>>,
    <<"JAZZCASH", 11>>, <<"ZALO", 12>>, <<"CASHMAAL", 13>>, <<"GCASH", 14>>, <<"GRABPAY", 15>>,
    <<"PAYMAYA", 16>>, <<"UPAY", 17>>, <<"BOOSTWALLET", 18>>, <<"TOUCHNGO", 19>>,
    <<"GPAY", 20>>, <<"PAYTM", 21>>, <<"SURECASH", 22>>, <<"TRUSTAXIATAPAY", 23>>,
    <<"OKWALLET", 24>>, <<"UPAISA", 25>>, <<"UPI", 26>>, <<"KOMO", 27>>, <<"USDT_TRC20", 28>>,
    <<"USDT_ERC20", 29>> >>

CompanyBankPaymentType == Registry("CompanyBankPaymentType", CompanyBankPaymentType_1 \o <<
    <<"USDT_OMNI", 30>>, <<"CONVENIENCESTORE", 31>>, <<"SHOPEEPAY", 32>>, <<"OMNIPAY", 33>>,
    <<"TAYOCASH", 34>>, <<"STARPAY", 35>>, <<"PAYNOWQRCODE", 36>>, <<"VIRTUALBANK", 37>>,
    <<"NAYAPAY", 38>>, <<"PIXBANK", 39>>, <<"VISAMC", 40>>, <<"BILLEASE", 41>>,
    <<"PALAWANPAWNSHOP", 42>>, <<"FIRSTPAY", 45>>, <<"COINSPH", 46>>, <<"JAZZCASHTILLID", 47>>,
    <<"ECPAY", 48>> >>)

PromotionItemType == Registry("PromotionItemType", <<
    <<"PROMOTION_MESSAGE", -1>>, <<"NORMAL_DEPOSIT", 0>>, <<"FIRST_DEPOSIT", 1>> >>)

SemiAutoBonusStatusType == Registry("SemiAutoBonusStatusType", <<
    <<"PENDING", 0>>, <<"ISSUED", 1>>, <<"CANCEL", 2>> >>)

PromotionVerificationStatusType == Registry("PromotionVerificationStatusType", <<
    <<"PENDING", 0>>, <<"APPROVED", 1>>, <<"REJECTED", -1>>, <<"REJECTED_FOREVER", -2>> >>)

ManualForceServeStatusType == Registry("ManualForceServeStatusType", <<
    <<"PENDING", 0>>, <<"ON_HOLD", 1>>, <<"CONFIRMED", 2>>, <<"REJECTED", -1>> >>)

AffiliateFinanceStatusType == Registry("AffiliateFinanceStatusType", <<
    <<"PENDING", 0>>, <<"VERIFIED", 1>>, <<"CANCEL", 2>> >>)

PGAccountActionType == Registry("PGAccountActionType", <<
    <<"CREATE", 1>>, <<"UPDATE", 2>>, <<"TEST", 3>> >>)

CustomerServiceType == Registry("CustomerServiceType", <<
    <<"CSLINK", 1>>, <<"EMAIL", 2>>, <<"QQ", 3>>, <<"WECHAT", 4>>, <<"SKYPE", 5>>,
    <<"ZALO", 6>>, <<"TELEGRAM", 7>>, <<"WHATSAPP", 8>>, <<"KAKAOTALK", 9>>, <<"LINE", 10>>,
    <<"BBM", 11>>, <<"FACEBOOK", 12>>, <<"IMO", 13>>, <<"Phone", 14>>, <<"Viber", 15>> >>)

LandingPageType_1 == <<
    <<"ALL", 0>>, <<"MAIN", 1>>, <<"REGISTER", 2>>, <<"PROMOTION", 3>>, <<"SPORTS", 4>>,
    <<"CASINO", 5>>, <<"CARD", 6>>, <<"FISHING", 7>>, <<"SLOT", 8>>, <<"VIP", 9>>,
    <<"ABOUT", 10>>, <<"PAYMENT", 11>>, <<"PRIVACY", 12>>, <<"CONDITIONS", 13>>,
    <<"DUTY", 14>>, <<"AGE_18_ABOVE", 15>> >>

LandingPageType == Registry("LandingPageType", LandingPageType_1 \o <<
    <<"FAQ", 16>>, <<"RULE", 17>>, <<"CONTACT", 18>>, <<"SAFE", 19>>, <<"NOT_FOUND", 19>> >>)

SearchEngineOptimizationDefaultAttribute == Registry("SearchEngineOptimizationDefaultAttribute", <<
    <<"TITLE", 1>>, <<"KEYWORDS", 2>>, <<"DESCRIPTION", 3>> >>)

BinaryStatusType == Registry("BinaryStatusType", <<
    <<"INACTIVE", 0>>, <<"ACTIVE", 1>> >>)

NotificationSettingStatusType == Registry("NotificationSettingStatusType", <<
    <<"DELETE", -1>>, <<"INACTIVE", 0>>, <<"ACTIVE", 1>> >>)

BonusWalletType == Registry("BonusWalletType", <<
    <<"MAIN", -1>>, <<"PROMOTION", -2>> >>)

ParticipationType == Registry("ParticipationType", <<
    <<"AUTO", 1>>, <<"SEMI_AUTO", 2>>, <<"MANUAL", 3>>, <<"PROMO_CODE", 4>>,
    <<"SYSTEM_DYNAMICS", 5>> >>)

ManualForceServeType == Registry("ManualForceServeType", <<
    <<"MANUAL", 0>>, <<"AUTO", 1>>, <<"NOT_ALLOWED", -1>> >>)

UserChannelType == [Registry("UserChannelType", <<
    <<"DIRECT", 0>>, <<"AFFILIATE", 1>> >>) EXCEPT
    !.strict = TRUE]

AccountSummaryReportType == [Registry("AccountSummaryReportType", <<
    <<"BET", 0>>, <<"DEPOSIT", 1>>, <<"ADJUSTMENT", 2>>, <<"WITHDRAWALS", 3>>,
    <<"TRANSFER", 4>>, <<"TURNOVER_BONUS", 5>>, <<"LOSS_BONUS", 6>>, <<"ISSUE_BONUS", 7>>,
    <<"TURNOVER", 9>>, <<"SPECIAL_BONUS", 10>>, <<"TRANSFER_IN", 11>>, <<"TRANSFER_OUT", 12>>,
    <<"DEPOSIT_BONUS", 13>>, <<"RECYCLE_BALANCE", 14>>, <<"CANCEL_FEE", 15>>,
    <<"DEPOSIT_FEE", 16>>, <<"WITHDRAWAL_FEE", 17>>, <<"REVENUE_ADJUSTMENT", 18>>,
    <<"REFERRAL_COMMISSION", 19>> >>) EXCEPT
    !.strict = TRUE]

TransferStatusType == Registry("TransferStatusType", <<
    <<"PENDING", 0>>, <<"SUCCESS", 1>>, <<"FAIL", -1>> >>)

BackOfficeStatusType == Registry("BackOfficeStatusType", <<
    <<"NEW", 0>>, <<"PROCESSING", 1>>, <<"FAILED", -1>>, <<"COMPLETED", 2>>, <<"AWAITED", 3>> >>)

ReportExportType_1 == <<
    <<"MEMBER", 0>>, <<"MEMBER_WITH_PROVIDER_ACCOUNT", 1>>, <<"DEPOSIT", 2>>,
    <<"WITHDRAWAL", 3>>, <<"ADJUSTMENT", 4>>, <<"BONUS", 5>>, <<"PAYMENT", 6>>,
    <<"TURNOVER", 7>>, <<"DAILY", 8>>, <<"VENDOR", 9>>, <<"VIP_CHANGE", 10>>,
    <<"FRAUD_TOOL", 11>>, <<"AFFILIATE", 12>>, <<"COMMISSION_STRUCTURE", 13>> >>

ReportExportType_2 == <<
    <<"PERFORMANCE_AFFILIATE", 14>>, <<"PERFORMANCE_PLAYER", 15>>,
    <<"AFFILIATE_DOWN_LINE_SETTING", 16>>, <<"REFERRAL", 17>>, <<"TODAY_BET", 18>>,
    <<"TRANSFER", 19>>, <<"GAME", 20>>, <<"DOCUMENT", 21>>, <<"DASHBOARD_BONUS", 22>>,
    <<"DASHBOARD_REGISTER", 23>>, <<"DASHBOARD_PROFIT", 24>>, <<"DASHBOARD_DEPOSIT", 25>>,
    <<"DASHBOARD_WITHDRAWAL", 26>>, <<"DASHBOARD_FIRST_DEPOSIT", 27>>,
    <<"DASHBOARD_TURNOVER", 28>> >>

ReportExportType_3 == <<
    <<"DASHBOARD_RECYCLE_BALANCE", 29>>, <<"VIP_POINT_EARN", 31>>,
    <<"MEMBER_GROUP_DETAIL", 33>>, <<"AFFILIATE_FINANCE", 35>>,
    <<"AFFILIATE_FINANCE_DOWNLINE", 36>>, <<"SEMI_AUTO_TURNOVER_DETAIL", 38>>,
    <<"SEMI_AUTO_LOSS_DETAIL", 39>>, <<"PAYMENT_DEPOSIT", 40>>, <<"PAYMENT_WITHDRAWAL", 41>>,
    <<"PAYMENT_ADJUSTMENT", 42>>, <<"AFFILIATE_DOMAIN", 44>>, <<"PAYMENT_ACCOUNT", 45>>,
    <<"REFERRAL_COMMISSION_VERIFY", 46>>, <<"REFERRAL_COMMISSION_REPORT", 47>>,
    <<"REFERRAL_COMMISSION_DOWNLINE_REPORT", 48>> >>

ReportExportType == Registry("ReportExportType", ReportExportType_1 \o ReportExportType_2 \o ReportExportType_3 \o <<
    <<"PROFILE_COMMISSION_REPORT", 49>> >>)

AccountGenderType == Registry("AccountGenderType", <<
    <<"FEMALE", 0>>, <<"MALE", 1>> >>)

AccountMaritalType == Registry("AccountMaritalType", <<
    <<"SINGLE", 0>>, <<"MARRIED", 1>>, <<"WIDOWED", 2>>, <<"DIVORCED", 3>> >>)

DocumentGroupType == Registry("DocumentGroupType", <<
    <<"DOCUMENT", 0>>, <<"BANK", 1>>, <<"EWALLET", 3>>, <<"UPI", 4>> >>)

DocumentStatusType == Registry("DocumentStatusType", <<
    <<"PENDING", 1>>, <<"APPROVED", 2>>, <<"ON_HOLD", 3>>, <<"OTP_PENDING", 4>>,
    <<"REJECTED", -1>>, <<"REMOVED", -2>> >>)

BankTransferType == Registry("BankTransferType", <<>>)

RemarkTemplateType == Registry("RemarkTemplateType", <<
    <<"DEPOSIT", 1>>, <<"WITHDRAWAL", 2>>, <<"ADJUSTMENT", 3>>, <<"FORCE_SERVE", 4>>,
    <<"MANUAL_FORCE_SERVE", 5>>, <<"DOCUMENT", 6>>, <<"RISK_REMARK", 7>> >>)

WebsiteCurrencySettingType == Registry("WebsiteCurrencySettingType", <<
    <<"LANGUAGE", 2>>, <<"COUNTRY", 3>>, <<"TIMEZONE", 4>>, <<"MARKETINGGROUP", 5>> >>)

WebsiteCountrySettingType == Registry("WebsiteCountrySettingType", <<
    <<"CURRENCY", 1>> >>)

EngagementType == [Registry("EngagementType", <<
    <<"EMAIL", 1>>, <<"SMS", 2>> >>) EXCEPT
    !.strict = TRUE]

PhoneActionType == [Registry("PhoneActionType", <<
    <<"winic", 1>>, <<"twilio", 2>>, <<"movider", 3>>, <<"accessyou", 4>>, <<"mshastra", 5>>,
    <<"nexmo", 6>>, <<"acestar", 7>>, <<"fireMobile", 8>>, <<"swagger", 9>>, <<"maxzino", 10>>,
    <<"clickatell", 11>>, <<"cheapGlobal", 12>>, <<"leyun", 13>>, <<"busyBee", 14>>,
    <<"msg91", 15>>, <<"karix", 16>>, <<"plasgate", 17>> >>) EXCEPT
    !.strict = TRUE]

VipExperienceRetentionType == Registry("VipExperienceRetentionType", <<
    <<"EXPERIENCE", 0>>, <<"DEPOSIT", 1>> >>)

MoneyTransactionProcessingStatusType == [Registry("MoneyTransactionProcessingStatusType", <<
    <<"MANUAL", 1>>, <<"PG", 2>> >>) EXCEPT
    !.late = <<"getInstanceOf", "getInstanceByMoneyTransactionType", "values">>]

ExternalProviderType == [Registry("ExternalProviderType", <<
    <<"FANTASTIC", 0>>, <<"NINE_WICKETS", 1>> >>) EXCEPT
    !.strict = TRUE]

BonusReceiveType == [Registry("BonusReceiveType", <<
    <<"BONUS", 1>> >>) EXCEPT
    !.strict = TRUE]

WebsiteCategoryType == [Registry("WebsiteCategoryType", <<
    <<"CATEGORY_CONTAINER", 0>>, <<"GAME_CONTAINER", 1>>, <<"DIRECT_URL", 2>>, <<"VENDOR", 3>>,
    <<"GAME", 4>> >>) EXCEPT
    !.strict = TRUE]

TurnoverGroupingType == [Registry("TurnoverGroupingType", <<
    <<"USER_ID", 1>>, <<"GAME_TYPR", 2>>, <<"GAME", 3>> >>) EXCEPT
    !.strict = TRUE]

PersonalInfoType == [Registry("PersonalInfoType", <<
    <<"BIRTHDAY", 1>>, <<"GENDER", 2>>, <<"MARITAL", 4>>, <<"FULL_NAME", 8>> >>) EXCEPT
    !.late = <<"getInstanceOf">>, !.strict = TRUE, !.values = "WebsiteCategoryType"]

\* WithdrawalProvinceCityData: the provinces with the codes of their cities.
CityList_North == <<
    <<110000, {110100}>>,
    <<120000, {120100}>>,
    <<130000, {130100, 130200, 130300, 130400, 130500, 130600, 130700, 130800, 130900, 131000,
        131100}>>,
    <<140000, {140100, 140200, 140300, 140400, 140500, 140600, 140700, 140800, 140900, 141000,
        141100}>>,
    <<150000, {150100, 150200, 150300, 150400, 150500, 150600, 150700, 150800, 150900, 152200,
        152500, 152900}>>,
    <<210000, {210100, 210200, 210300, 210400, 210500, 210600, 210700, 210800, 210900, 211000,
        211100, 211200, 211300, 211400}>>,
    <<220000, {220100, 220200, 220300, 220400, 220500, 220600, 220700, 220800, 222400}>>,
    <<230000, {230100, 230200, 230300, 230400, 230500, 230600, 230700, 230800, 230900, 231000,
        231100, 231200, 232700}>>,
    <<310000, {310100}>>,
    <<320000, {320100, 320200, 320300, 320400, 320500, 320600, 320700, 320800, 320900, 321000,
        321100, 321200, 321300}>>,
    <<330000, {330100, 330200, 330300, 330400, 330500, 330600, 330700, 330800, 330900, 331000,
        331100}>>,
    <<340000, {340100, 340200, 340300, 340400, 340500, 340600, 340700, 340800, 341000, 341100,
        341200, 341300, 341500, 341600, 341700, 341800}>>,
    <<350000, {350100, 350200, 350300, 350400, 350500, 350600, 350700, 350800, 350900}>>,
    <<360000, {360100, 360200, 360300, 360400, 360500, 360600, 360700, 360800, 360900, 361000,
        361100}>> >>

CityList_South == <<
    <<370000, {370100, 370200, 370300, 370400, 370500, 370600, 370700, 370800, 370900, 371000,
        371100, 371200, 371300, 371400, 371500, 371600, 371700}>>,
    <<410000, {410100, 410200, 410300, 410400, 410500, 410600, 410700, 410800, 410900, 411000,
        411100, 411200, 411300, 411400, 411500, 411600, 411700}>>,
    <<420000, {420100, 420200, 420300, 420500, 420600, 420700, 420800, 420900, 421000, 421100,
        421200, 421300, 422800}>>,
    <<430000, {430100, 430200, 430300, 430400, 430500, 430600, 430700, 430800, 430900, 431000,
        431100, 431200, 431300, 433100}>>,
    <<440000, {440100, 440200, 440300, 440400, 440500, 440600, 440700, 440800, 440900, 441200,
        441300, 441400, 441500, 441600, 441700, 441800, 441900, 442000, 445100, 445200,
        445300}>>,
    <<450000, {450100, 450200, 450300, 450400, 450500, 450600, 450700, 450800, 450900, 451000,
        451100, 451200, 451300, 451400}>>,
    <<460000, {460100, 460200, 460300, 460400}>>,
    <<500000, {500100}>>,
    <<510000, {510100, 510300, 510400, 510500, 510600, 510700, 510800, 510900, 511000, 511100,
        511300, 511400, 511500, 511600, 511700, 511800, 511900, 512000, 513200, 513300,
        513400}>>,
    <<520000, {520100, 520200, 520300, 520400, 520500, 520600, 522300, 522600, 522700}>>,
    <<530000, {530100, 530300, 530400, 530500, 530600, 530700, 530800, 530900, 532300, 532500,
        532600, 532800, 532900, 533100, 533300, 533400}>>,
    <<540000, {540100, 540200, 540300, 540400, 540500, 542400, 542500}>> >>

CityList_West == <<
    <<610000, {610100, 610200, 610300, 610400, 610500, 610600, 610700, 610800, 610900, 611000}>>,
    <<620000, {620100, 620200, 620300, 620400, 620500, 620600, 620700, 620800, 620900, 621000,
        621100, 621200, 622900, 623000}>>,
    <<630000, {630100, 630200, 632200, 632300, 632500, 632600, 632700, 632800}>>,
    <<640000, {640100, 640200, 640300, 640400, 640500}>>,
    <<650000, {650100, 650200, 650400, 650500, 652300, 652700, 652800, 652900, 653000, 653100,
        653200, 654000, 654200, 654300, 659000}>> >>

WithdrawalProvinceCityData == CityList_North \o CityList_South \o CityList_West


\* The blocks in the order the browser executes them.
Script == <<
    CurrencyType, CallingCodeType, CountryType, ManagerStatusType, GameType,
    CompanyBankBankStatusType, CompanyBankPurposeType, AffiliateStatusType,
    AffiliateDomainStatusType, AffiliateCategoryType, MoneyTransactionStatusType,
    SyncTaskStatusType, GameStatusType, WebsiteStatusType, RankingType, ProviderStatusType,
    VendorStatusType, BonusTemplateStatusType, CommissionStructureStatusType, MessageType,
    MessageContentType, MessageRoleType, MessageStatusType, CustomerServiceStatusType,
    SendBoxType, ManagerRoleStatusType, BonusAwardingType, AwardingMethodType, CalculationType,
    PeriodTypeOfBonus, AmountType, AccountBonusTurnoverStatusType, PromotionPurposeType,
    BonusCategoryType, PeriodType, DBOrderType, PlatformType, AccountStatusType,
    ContactVerifiedType, ContactType, WithdrawalRestrictionType, LoginType,
    WebsiteSystemSettingType, WebsiteLoginSettingType, UserType, UserLevel, CashTransferType,
    PlatformGameType, PGAccountStatusType, PaymentDisplaySettingStatusType,
    NotificationSettingType, AffiliateType, AffiliateApplicationType, DocumentType, BankType,
    PaymentType, CompanyBankPaymentType, PromotionItemType, SemiAutoBonusStatusType,
    PromotionVerificationStatusType, ManualForceServeStatusType, AffiliateFinanceStatusType,
    PGAccountActionType, CustomerServiceType, LandingPageType,
    SearchEngineOptimizationDefaultAttribute, BinaryStatusType, NotificationSettingStatusType,
    BonusWalletType, ParticipationType, ManualForceServeType, UserChannelType,
    AccountSummaryReportType, TransferStatusType, BackOfficeStatusType, ReportExportType,
    AccountGenderType, AccountMaritalType, DocumentGroupType, DocumentStatusType,
    BankTransferType, RemarkTemplateType, WebsiteCurrencySettingType,
    WebsiteCountrySettingType, EngagementType, PhoneActionType, VipExperienceRetentionType,
    MoneyTransactionProcessingStatusType, ExternalProviderType, BonusReceiveType,
    WebsiteCategoryType, TurnoverGroupingType, PersonalInfoType >>
=============================================================================

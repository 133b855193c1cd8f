----------------------------- MODULE SerStructs -----------------------------
(*****************************************************************************)
(* The structures of the BLE API on the wire: every pair x_enc, x_dec of     *)
(* sd_api_common.  The files are compiled once for each API version; From and *)
(* Until are the #if on NRF_SD_BLE_API_VERSION.                              *)
(*****************************************************************************)
EXTENDS SerFormat

CONSTANT NRF_SD_BLE_API_VERSION

From(n, items)  == IF NRF_SD_BLE_API_VERSION >= n THEN items ELSE <<>>
Until(n, items) == IF NRF_SD_BLE_API_VERSION <= n THEN items ELSE <<>>

ble_gap_addr_t ==
    Both(<<bits(8, [addr_id_peer |-> {0}, addr_type |-> 1..7]),
           uint8array("addr", "BLE_GAP_ADDR_LEN")>>)
ble_gap_adv_report_type_t == Codec(
       <<bits(16, [connectable |-> up(0), scannable |-> up(1), directed |-> up(2),
                   scan_response |-> up(3), extended_pdu |-> up(4), status |-> up(5),
                   reserved |-> up(7)])>>,
       <<bits(16, [connectable |-> {0}, scannable |-> {1}, directed |-> {2},
                   scan_response |-> {3}, extended_pdu |-> {4}, status |-> 5..6,
                   reserved |-> 7..15])>>)
ble_data_t == Both(<<pooled("p_data"), len16data("p_data", "len")>>)
ble_gap_aux_pointer_t == Both(<<uint16("aux_offset"), uint8("aux_phy")>>)
ble_gap_evt_adv_report_t == Codec(
       From(6, <<field("type", ble_gap_adv_report_type_t)>>)
    \o <<field("peer_addr", ble_gap_addr_t), field("direct_addr", ble_gap_addr_t)>>
    \o From(6, <<uint8("primary_phy"), uint8("secondary_phy"), uint8("tx_power")>>)
    \o <<uint8("rssi")>>
    \o Until(5, <<bits(8, [scan_rsp |-> {0}, type |-> 1..2]), len8data("data", "dlen")>>)
    \o From(6, <<uint8("ch_index"), uint8("set_id"), bits(16, [data_id |-> up(0)]),
                 field("data", ble_data_t), field("aux_pointer", ble_gap_aux_pointer_t)>>),
       From(6, <<field("type", ble_gap_adv_report_type_t)>>)
    \o <<field("peer_addr", ble_gap_addr_t), field("direct_addr", ble_gap_addr_t)>>
    \o From(6, <<uint8("primary_phy"), uint8("secondary_phy"), uint8("tx_power")>>)
    \o <<uint8("rssi")>>
    \o Until(5, <<bits(8, [scan_rsp |-> {0}, type |-> 1..2]), len8data("data", "dlen")>>)
    \o From(6, <<uint8("ch_index"), uint8("set_id"), bits(16, [data_id |-> 0..11]),
                 field("data", ble_data_t), field("aux_pointer", ble_gap_aux_pointer_t)>>))
ble_gap_irk_t == Both(<<uint8array("irk", "BLE_GAP_SEC_KEY_LEN")>>)
ble_gap_sec_levels_t == Codec(
       <<bits(8, [lv1 |-> up(0), lv2 |-> up(1), lv3 |-> up(2), lv4 |-> up(3)])>>,
       <<bits(8, [lv1 |-> {0}, lv2 |-> {1}, lv3 |-> {2}, lv4 |-> {3}])>>)
ble_gap_enc_info_t ==
    Both(<<uint8array("ltk", "BLE_GAP_SEC_KEY_LEN"),
           bits(8, [lesc |-> {0}, auth |-> {1}, ltk_len |-> 2..7])>>)
ble_gap_master_id_t == Both(<<uint16("ediv"), uint8array("rand", "BLE_GAP_SEC_RAND_LEN")>>)
ble_gap_enc_key_t ==
    Both(<<field("enc_info", ble_gap_enc_info_t), field("master_id", ble_gap_master_id_t)>>)
ble_gap_id_key_t ==
    Both(<<field("id_info", ble_gap_irk_t), field("id_addr_info", ble_gap_addr_t)>>)
ble_gap_sign_info_t == Both(<<uint8array("csrk", "BLE_GAP_SEC_KEY_LEN")>>)
ble_gap_lesc_p256_pk_t == Both(<<uint8array("pk", "BLE_GAP_LESC_P256_PK_LEN")>>)
ble_gap_sec_keys_t ==
    Both(<<cond("p_enc_key", ble_gap_enc_key_t), cond("p_id_key", ble_gap_id_key_t),
           cond("p_sign_key", ble_gap_sign_info_t), cond("p_pk", ble_gap_lesc_p256_pk_t)>>)
ble_gap_sec_kdist_t == Both(<<bits(8, [enc |-> {0}, id |-> {1}, sign |-> {2}, link |-> {3}])>>)
ble_gap_evt_auth_status_t == Codec(
       <<uint8("auth_status")>>
    \o Until(3, <<bits(8, [error_src |-> up(0), bonded |-> up(2)])>>)
    \o From(5, <<bits(8, [error_src |-> up(0), bonded |-> up(2), lesc |-> up(3)])>>)
    \o <<field("sm1_levels", ble_gap_sec_levels_t), field("sm2_levels", ble_gap_sec_levels_t),
         field("kdist_own", ble_gap_sec_kdist_t), field("kdist_peer", ble_gap_sec_kdist_t)>>,
       <<uint8("auth_status")>>
    \o Until(3, <<bits(8, [error_src |-> 0..1, bonded |-> {2}])>>)
    \o From(5, <<bits(8, [error_src |-> 0..1, bonded |-> {2}, lesc |-> {3}])>>)
    \o <<field("sm1_levels", ble_gap_sec_levels_t), field("sm2_levels", ble_gap_sec_levels_t),
         field("kdist_own", ble_gap_sec_kdist_t), field("kdist_peer", ble_gap_sec_kdist_t)>>)
ble_gap_conn_sec_mode_t == Both(<<bits(8, [sm |-> 0..3, lv |-> 4..7])>>)
ble_gap_conn_sec_t ==
    Both(<<field("sec_mode", ble_gap_conn_sec_mode_t), uint8("encr_key_size")>>)
ble_gap_evt_conn_sec_update_t == Both(<<field("conn_sec", ble_gap_conn_sec_t)>>)
ble_gap_evt_sec_info_request_t ==
    Both(<<field("peer_addr", ble_gap_addr_t), field("master_id", ble_gap_master_id_t),
           bits(8, [enc_info |-> {0}, id_info |-> {1}, sign_info |-> {2}])>>)
(* Variant: latency and timeout swapped on the way out. *)
SwappedConnParams ==
    Codec(<<uint16("min_conn_interval"), uint16("max_conn_interval"), uint16("conn_sup_timeout"),
            uint16("slave_latency")>>,
          <<uint16("min_conn_interval"), uint16("max_conn_interval"), uint16("slave_latency"),
            uint16("conn_sup_timeout")>>)
ble_gap_conn_params_t ==
    Both(<<uint16("min_conn_interval"), uint16("max_conn_interval"), uint16("slave_latency"),
           uint16("conn_sup_timeout")>>)
ble_data_t_empty == Both(<<pooled("p_data"), uint16("len")>>)
ble_gap_adv_data_t_empty ==
    Both(<<field("adv_data", ble_data_t_empty), field("scan_rsp_data", ble_data_t_empty)>>)
ble_gap_evt_connected_t == Both(
       <<field("peer_addr", ble_gap_addr_t), uint8("role"),
         field("conn_params", ble_gap_conn_params_t)>>
    \o From(6, <<uint8("adv_handle"), field("adv_data", ble_gap_adv_data_t_empty)>>))
ble_gap_sec_params_t ==
    Both(<<bits(8, [bond |-> {0}, mitm |-> {1}, lesc |-> {2}, keypress |-> {3},
                    io_caps |-> 4..6, oob |-> {7}]), uint8("min_key_size"),
           uint8("max_key_size"), field("kdist_own", ble_gap_sec_kdist_t),
           field("kdist_peer", ble_gap_sec_kdist_t)>>)
ble_gap_evt_sec_params_request_t == Both(<<field("peer_params", ble_gap_sec_params_t)>>)
ble_gap_evt_conn_param_update_t == Both(<<field("conn_params", ble_gap_conn_params_t)>>)
ble_gap_evt_conn_param_update_request_t == Both(<<field("conn_params", ble_gap_conn_params_t)>>)
ble_gap_evt_disconnected_t == Both(<<uint8("reason")>>)
ble_gap_scan_params_t == Both(
       Until(5, <<bits(8, [active |-> {0}, use_whitelist |-> {1}, adv_dir_report |-> {2}])>>)
    \o From(6, <<bits(8, [extended |-> {0}, report_incomplete_evts |-> {1}, active |-> {2},
                          filter_policy |-> 3..4]), uint8("scan_phys"),
                 buf("channel_mask", "5")>>)
    \o <<uint16("interval"), uint16("window"), uint16("timeout")>>)
ble_gap_sec_keyset_t ==
    Both(<<field("keys_own", ble_gap_sec_keys_t), field("keys_peer", ble_gap_sec_keys_t)>>)
ble_gap_evt_sec_request_t ==
    Both(<<bits(8, [bond |-> {0}, mitm |-> {1}, lesc |-> {2}, keypress |-> {3}])>>)
ble_gap_opt_ch_map_t == Both(<<uint16("conn_handle"), uint8array("ch_map", "5")>>)
ble_gap_opt_local_conn_latency_t ==
    Both(<<uint16("conn_handle"), uint16("requested_latency"),
           cond("p_actual_latency", uint16_t)>>)
ble_gap_opt_passkey_t == Both(<<buf("p_passkey", "BLE_GAP_PASSKEY_LEN")>>)
ble_gap_opt_scan_req_report_t == Both(<<bits(8, [enable |-> {0}])>>)
ble_gap_opt_compat_mode_t == Both(<<bits(8, [mode_1_enable |-> {0}])>>)
ble_gap_adv_ch_mask_t ==
    Both(<<bits(8, [ch_37_off |-> {0}, ch_38_off |-> {1}, ch_39_off |-> {2}])>>)
ble_gap_device_name_t ==
    Both(<<field("write_perm", ble_gap_conn_sec_mode_t), bits(8, [vloc |-> 0..1]),
           uint16("current_len"), uint16("max_len"), buf("p_value", "current_len")>>)
ble_gap_enable_params_t ==
    Both(<<uint8("periph_conn_count"), uint8("central_conn_count"), uint8("central_sec_count"),
           cond("p_device_name", ble_gap_device_name_t)>>)
ble_gap_lesc_dhkey_t == Both(<<uint8array("key", "BLE_GAP_LESC_DHKEY_LEN")>>)
ble_gap_lesc_oob_data_t ==
    Both(<<field("addr", ble_gap_addr_t), uint8array("r", "BLE_GAP_SEC_KEY_LEN"),
           uint8array("c", "BLE_GAP_SEC_KEY_LEN")>>)
ble_gap_adv_properties_t == Codec(
       <<uint8("type"), bits(8, [anonymous |-> up(0), include_tx_power |-> up(1)])>>,
       <<uint8("type"), bits(8, [anonymous |-> {0}, include_tx_power |-> {1}])>>)
ble_gap_adv_params_t == Codec(
       Until(5, <<uint8("type")>>)
    \o From(6, <<field("properties", ble_gap_adv_properties_t)>>)
    \o <<cond("p_peer_addr", ble_gap_addr_t)>>
    \o Until(5, <<uint8("fp"), uint16("interval"), uint16("timeout"),
                  field("channel_mask", ble_gap_adv_ch_mask_t)>>)
    \o From(6, <<uint32("interval"), uint16("duration"), uint8("max_adv_evts"),
                 buf("channel_mask", "5"), uint8("filter_policy"), uint8("primary_phy"),
                 uint8("secondary_phy"),
                 bits(8, [set_id |-> up(0), scan_req_notification |-> up(4)])>>),
       Until(5, <<uint8("type")>>)
    \o From(6, <<field("properties", ble_gap_adv_properties_t)>>)
    \o <<cond("p_peer_addr", ble_gap_addr_t)>>
    \o Until(5, <<uint8("fp"), uint16("interval"), uint16("timeout"),
                  field("channel_mask", ble_gap_adv_ch_mask_t)>>)
    \o From(6, <<uint32("interval"), uint16("duration"), uint8("max_adv_evts"),
                 buf("channel_mask", "5"), uint8("filter_policy"), uint8("primary_phy"),
                 uint8("secondary_phy"),
                 bits(8, [set_id |-> 0..3, scan_req_notification |-> {4}])>>))
ble_gap_opt_ext_len_t == Both(<<uint8("rxtx_max_pdu_payload_size")>>)
ble_gap_opt_auth_payload_timeout_t ==
    Both(<<uint16("conn_handle"), uint16("auth_payload_timeout")>>)
ble_gap_privacy_params_t ==
    Both(<<uint8("privacy_mode"), uint8("private_addr_type"), uint16("private_addr_cycle_s"),
           cond("p_device_irk", ble_gap_irk_t)>>)
ble_gap_cfg_device_name_t ==
    Both(<<field("write_perm", ble_gap_conn_sec_mode_t), bits(8, [vloc |-> 0..1]),
           uint16("current_len"), uint16("max_len"), buf("p_value", "current_len")>>)
ble_gap_opt_compat_mode_1_t == Codec(
       <<bits(8, [enable |-> up(0)])>>,
       <<uint8("enable")>>)
ble_gap_opt_slave_latency_disable_t == Codec(
       <<uint16("conn_handle"), bits(8, [disable |-> up(0)])>>,
       <<uint16("conn_handle"), uint8("disable")>>)
ble_gap_conn_cfg_t == Both(<<uint8("conn_count"), uint16("event_length")>>)
ble_gap_cfg_role_count_t == Codec(
       <<uint8("periph_role_count"), uint8("central_role_count"), uint8("central_sec_count")>>
    \o From(6, <<uint8("adv_set_count"),
                 bits(8, [qos_channel_survey_role_available |-> up(0)])>>),
       <<uint8("periph_role_count"), uint8("central_role_count"), uint8("central_sec_count")>>
    \o From(6, <<uint8("adv_set_count"), uint8("qos_channel_survey_role_available")>>))
ble_gap_data_length_params_t ==
    Both(<<uint16("max_tx_octets"), uint16("max_rx_octets"), uint16("max_tx_time_us"),
           uint16("max_rx_time_us")>>)
ble_gap_data_length_limitation_t ==
    Both(<<uint16("tx_payload_limited_octets"), uint16("rx_payload_limited_octets"),
           uint16("tx_rx_time_limited_us")>>)
ble_gap_phys_t == Both(<<uint8("tx_phys"), uint8("rx_phys")>>)
ble_gap_adv_data_t ==
    Both(<<field("adv_data", ble_data_t), field("scan_rsp_data", ble_data_t)>>)
ble_gap_evt_adv_set_terminated_t ==
    Both(<<uint8("reason"), uint8("adv_handle"), uint8("num_completed_adv_events"),
           field("adv_data", ble_gap_adv_data_t_empty)>>)
ble_gatt_char_props_t ==
    Both(<<bits(8, [broadcast |-> {0}, read |-> {1}, write_wo_resp |-> {2}, write |-> {3},
                    notify |-> {4}, indicate |-> {5}, auth_signed_wr |-> {6}])>>)
ble_gatt_char_ext_props_t == Both(<<bits(8, [reliable_wr |-> {0}, wr_aux |-> {1}])>>)
ble_gatt_enable_params_t == Both(<<uint16("att_mtu")>>)
ble_gatt_conn_cfg_t == Both(<<uint16("att_mtu")>>)
ble_gattc_evt_char_val_by_uuid_read_rsp_t == Codec(
       <<uint16("count"), uint16("value_len"), uint8array("handle_value", "count")>>,
       <<uint16("count"), uint16("value_len"), limit("count", "ext_len"),
         uint8array("handle_value", "count")>>)
ble_gattc_evt_char_vals_read_rsp_t == Codec(
       <<uint16("len"), uint8array("values", "len")>>,
       <<uint16("len"), limit("len", "ext_len"), uint8array("values", "len")>>)
ble_gattc_handle_range_t == Both(<<uint16("start_handle"), uint16("end_handle")>>)
ble_uuid_t == Both(<<uint16("uuid"), uint8("type")>>)
ble_gattc_service_t ==
    Both(<<field("uuid", ble_uuid_t), field("handle_range", ble_gattc_handle_range_t)>>)
ble_gattc_include_t == Both(<<uint16("handle"), field("included_srvc", ble_gattc_service_t)>>)
ble_gattc_evt_rel_disc_rsp_t == Codec(
       <<uint16("count"), each("includes", ble_gattc_include_t, "count")>>,
       <<uint16("count"), limit("count", "ext_len"),
         each("includes", ble_gattc_include_t, "count")>>)
ble_gattc_write_params_t ==
    Both(<<uint8("write_op"), uint8("flags"), uint16("handle"), uint16("offset"),
           len16data("p_value", "len")>>)
ble_gattc_attr_info16_t == Both(<<uint16("handle"), field("uuid", ble_uuid_t)>>)
ble_uuid128_t == Both(<<uint8array("uuid128", "16")>>)
ble_gattc_attr_info128_t == Both(<<uint16("handle"), field("uuid", ble_uuid128_t)>>)
ble_gattc_evt_attr_info_disc_rsp_t == Codec(
       <<uint16("count"), uint8("format"),
         oneOf("format", [BLE_GATTC_ATTR_INFO_FORMAT_16BIT |->
                              <<sub("info", <<each("attr_info16", ble_gattc_attr_info16_t,
                                                   "count")>>)>>,
                          BLE_GATTC_ATTR_INFO_FORMAT_128BIT |->
                              <<sub("info", <<each("attr_info128", ble_gattc_attr_info128_t,
                                                   "count")>>)>>])>>,
       <<uint16("count"), uint8("format"), limit("count", "ext_len"),
         oneOf("format", [BLE_GATTC_ATTR_INFO_FORMAT_16BIT |->
                              <<sub("info", <<each("attr_info16", ble_gattc_attr_info16_t,
                                                   "count")>>)>>,
                          BLE_GATTC_ATTR_INFO_FORMAT_128BIT |->
                              <<sub("info", <<each("attr_info128", ble_gattc_attr_info128_t,
                                                   "count")>>)>>])>>)
ble_gattc_char_t ==
    Both(<<field("uuid", ble_uuid_t), field("char_props", ble_gatt_char_props_t),
           bits(8, [char_ext_props |-> {0}]), uint16("handle_decl"), uint16("handle_value")>>)
ble_gattc_evt_char_disc_rsp_t == Codec(
       <<uint16("count"), each("chars", ble_gattc_char_t, "count")>>,
       <<uint16("count"), limit("count", "ext_len"), each("chars", ble_gattc_char_t, "count")>>)
ble_gattc_desc_t == Both(<<uint16("handle"), field("uuid", ble_uuid_t)>>)
ble_gattc_evt_desc_disc_rsp_t == Codec(
       <<uint16("count"), each("descs", ble_gattc_desc_t, "count")>>,
       <<uint16("count"), limit("count", "ext_len"), each("descs", ble_gattc_desc_t, "count")>>)
ble_gattc_evt_hvx_t == Codec(
       <<uint16("handle"), uint8("type"), uint16("len"), uint8array("data", "len")>>,
       <<uint16("handle"), uint8("type"), uint16("len"), limit("len", "ext_len"),
         uint8array("data", "len")>>)
ble_gattc_evt_prim_srvc_disc_rsp_t == Codec(
       <<uint16("count"), each("services", ble_gattc_service_t, "count")>>,
       <<uint16("count"), limit("count", "ext_len"),
         each("services", ble_gattc_service_t, "count")>>)
ble_gattc_evt_read_rsp_t == Codec(
       <<uint16("handle"), uint16("offset"), uint16("len"), uint8array("data", "len")>>,
       <<uint16("handle"), uint16("offset"), uint16("len"), limit("len", "ext_len"),
         uint8array("data", "len")>>)
ble_gattc_evt_timeout_t == Both(<<uint8("src")>>)
ble_gattc_evt_write_rsp_t == Codec(
       <<uint16("handle"), uint8("write_op"), uint16("offset"), uint16("len"),
         uint8array("data", "len")>>,
       <<uint16("handle"), uint8("write_op"), uint16("offset"), uint16("len"),
         limit("len", "ext_len"), uint8array("data", "len")>>)
ble_gattc_evt_exchange_mtu_rsp_t == Both(<<uint16("server_rx_mtu")>>)
ble_gattc_conn_cfg_t == Both(<<uint8("write_cmd_tx_queue_size")>>)
ble_gatts_char_pf_t ==
    Both(<<uint8("format"), uint8("exponent"), uint16("unit"), uint8("name_space"),
           uint16("desc")>>)
ble_gatts_attr_md_t == Codec(
       <<field("read_perm", ble_gap_conn_sec_mode_t),
         field("write_perm", ble_gap_conn_sec_mode_t),
         bits(8, [vlen |-> {0}, vloc |-> 1..2, rd_auth |-> {3}, wr_auth |-> {4}]),
         only("vloc", "BLE_GATTS_VLOC_STACK")>>,
       <<field("read_perm", ble_gap_conn_sec_mode_t),
         field("write_perm", ble_gap_conn_sec_mode_t),
         bits(8, [vlen |-> {0}, vloc |-> 1..2, rd_auth |-> {3}, wr_auth |-> {4}])>>)
ble_gatts_char_md_t == Codec(
       <<field("char_props", ble_gatt_char_props_t),
         field("char_ext_props", ble_gatt_char_ext_props_t), uint16("char_user_desc_max_size"),
         limit("char_user_desc_size", "BLE_GATTS_VAR_ATTR_LEN_MAX"),
         len16data("p_char_user_desc", "char_user_desc_size"),
         cond("p_char_pf", ble_gatts_char_pf_t), cond("p_user_desc_md", ble_gatts_attr_md_t),
         cond("p_cccd_md", ble_gatts_attr_md_t), cond("p_sccd_md", ble_gatts_attr_md_t)>>,
       <<field("char_props", ble_gatt_char_props_t),
         field("char_ext_props", ble_gatt_char_ext_props_t), uint16("char_user_desc_max_size"),
         len16data("p_char_user_desc", "char_user_desc_size"),
         cond("p_char_pf", ble_gatts_char_pf_t), cond("p_user_desc_md", ble_gatts_attr_md_t),
         cond("p_cccd_md", ble_gatts_attr_md_t), cond("p_sccd_md", ble_gatts_attr_md_t)>>)
ble_gatts_attr_t == Codec(
       <<cond("p_uuid", ble_uuid_t), cond("p_attr_md", ble_gatts_attr_md_t),
         uint16("init_offs"), uint16("max_len"),
         limit("init_len", "BLE_GATTS_VAR_ATTR_LEN_MAX"), len16data("p_value", "init_len")>>,
       <<cond("p_uuid", ble_uuid_t), cond("p_attr_md", ble_gatts_attr_md_t),
         uint16("init_offs"), uint16("max_len"), len16data("p_value", "init_len")>>)
ble_gatts_char_handles_t ==
    Both(<<uint16("value_handle"), uint16("user_desc_handle"), uint16("cccd_handle"),
           uint16("sccd_handle")>>)
ble_gatts_hvx_params_t ==
    Both(<<uint16("handle"), uint8("type"), uint16("offset"), cond("p_len", uint16_t),
           given("p_len", <<buf("p_data", "p_len")>>)>>)
ble_gatts_evt_write_t == Codec(
       <<uint16("handle"), field("uuid", ble_uuid_t), uint8("op"), uint8("auth_required"),
         uint16("offset"), uint16("len"), uint8array("data", "len")>>,
       <<uint16("handle"), field("uuid", ble_uuid_t), uint8("op"), uint8("auth_required"),
         uint16("offset"), uint16("len"), limit("len", "ext_len"), uint8array("data", "len")>>)
ble_gatts_evt_read_t == Both(<<uint16("handle"), field("uuid", ble_uuid_t), uint16("offset")>>)
ble_gatts_evt_rw_authorize_request_t ==
    Both(<<uint8("type"),
           oneOf("type", [BLE_GATTS_AUTHORIZE_TYPE_READ |->
                              <<sub("request", <<field("read", ble_gatts_evt_read_t)>>)>>,
                          BLE_GATTS_AUTHORIZE_TYPE_WRITE |->
                              <<sub("request", <<field("write", ble_gatts_evt_write_t)>>)>>])>>)
ble_gatts_authorize_params_t ==
    Both(<<uint16("gatt_status"), bits(8, [update |-> {0}]), uint16("offset"),
           len16data("p_data", "len")>>)
ble_gatts_rw_authorize_reply_params_t ==
    Both(<<uint8("type"),
           oneOf("type", [BLE_GATTS_AUTHORIZE_TYPE_READ |->
                              <<sub("params", <<field("read",
                                                      ble_gatts_authorize_params_t)>>)>>,
                          BLE_GATTS_AUTHORIZE_TYPE_WRITE |->
                              <<sub("params", <<field("write",
                                                      ble_gatts_authorize_params_t)>>)>>])>>)
ble_gatts_enable_params_t ==
    Both(<<bits(8, [service_changed |-> {0}]), uint32("attr_tab_size")>>)
ble_gatts_value_t == Both(<<uint16("offset"), len16data("p_value", "len")>>)
ble_gatts_evt_exchange_mtu_request_t == Both(<<uint16("client_rx_mtu")>>)
ble_gatts_evt_hvc_t == Both(<<uint16("handle")>>)
ble_gatts_evt_sys_attr_missing_t == Both(<<uint8("hint")>>)
ble_gatts_evt_timeout_t == Both(<<uint8("src")>>)
ble_gatts_conn_cfg_t == Both(<<uint8("hvn_tx_queue_size")>>)
ble_gatts_cfg_service_changed_t == Codec(
       <<bits(8, [service_changed |-> up(0)])>>,
       <<uint8("service_changed")>>)
ble_gatts_cfg_attr_tab_size_t == Both(<<uint32("attr_tab_size")>>)
ble_l2cap_header_t == Both(<<uint16("len"), uint16("cid")>>)
ble_l2cap_evt_rx_t == Codec(
       <<field("header", ble_l2cap_header_t), uint8array("data", "len")>>,
       <<field("header", ble_l2cap_header_t), limit("len", "ext_len"),
         uint8array("data", "len")>>)
ble_l2cap_conn_cfg_t ==
    Both(<<uint16("rx_mps"), uint16("tx_mps"), uint8("rx_queue_size"), uint8("tx_queue_size"),
           uint8("ch_count")>>)
ble_l2cap_ch_rx_params_t ==
    Both(<<uint16("rx_mtu"), uint16("rx_mps"),
           sub("sdu_buf", <<uint16("len"), uint32("p_data")>>)>>)
ble_l2cap_ch_setup_params_t ==
    Both(<<field("rx_params", ble_l2cap_ch_rx_params_t), uint16("le_psm"), uint16("status")>>)
ble_l2cap_ch_tx_params_t ==
    Both(<<uint16("tx_mtu"), uint16("peer_mps"), uint16("tx_mps"), uint16("credits")>>)
ble_conn_bw_count_t == Both(<<uint8("high_count"), uint8("mid_count"), uint8("low_count")>>)
ble_conn_bw_counts_t ==
    Both(<<field("tx_counts", ble_conn_bw_count_t), field("rx_counts", ble_conn_bw_count_t)>>)
ble_common_enable_params_t ==
    Both(<<uint16("vs_uuid_count"), cond("p_conn_bw_counts", ble_conn_bw_counts_t)>>)
ble_enable_params_t ==
    Both(<<field("common_enable_params", ble_common_enable_params_t),
           field("gap_enable_params", ble_gap_enable_params_t),
           field("gatt_enable_params", ble_gatt_enable_params_t),
           field("gatts_enable_params", ble_gatts_enable_params_t)>>)
ble_conn_bw_t == Both(<<uint8("conn_bw_rx"), uint8("conn_bw_tx")>>)
ble_common_opt_conn_bw_t == Both(<<uint8("role"), field("conn_bw", ble_conn_bw_t)>>)
ble_pa_lna_cfg_t == Both(<<bits(8, [enable |-> {0}, active_high |-> {1}, gpio_pin |-> 2..7])>>)
ble_common_opt_pa_lna_t ==
    Both(<<field("pa_cfg", ble_pa_lna_cfg_t), field("lna_cfg", ble_pa_lna_cfg_t),
           uint8("ppi_ch_id_set"), uint8("ppi_ch_id_clr"), uint8("gpiote_ch_id")>>)
ble_user_mem_block_t == Both(<<uint16("len"), cond("p_mem", None)>>)
ble_version_t ==
    Both(<<uint8("version_number"), uint16("company_id"), uint16("subversion_number")>>)
ble_evt_data_length_changed_t ==
    Both(<<uint16("max_tx_octets"), uint16("max_tx_time"), uint16("max_rx_octets"),
           uint16("max_rx_time")>>)
ble_common_opt_conn_evt_ext_t == Both(<<bits(8, [enable |-> {0}])>>)
ble_common_cfg_vs_uuid_t == Both(<<uint8("vs_uuid_count")>>)
=============================================================================
